---- MODULE Spec2Model ----
(***************************************************************************)
(* A state-machine model of thinkdrop-backend: the provider-fallback       *)
(* dispatchers (text and streaming), the WebSocket streaming handler, the  *)
(* OmniParser warmup coordinator, the LLM element matcher and the element  *)
(* cache.  Every subsystem has its own specification over the one set of   *)
(* variables; the variables of the other subsystems stay unchanged.        *)
(***************************************************************************)
EXTENDS Integers, Sequences, FiniteSets, TLC

VARIABLES
  \* --- process configuration
  env,                  \* providers whose credential is set in process.env
  \* --- LLMRouter.processPrompt (text dispatcher)
  textCall,             \* the last processPrompt call: its input and outcome
  \* --- StreamingHandler / LLMStreamingRouter, one connection
  wsOpen,               \* ws.readyState === WebSocket.OPEN
  pc,                   \* per request: "idle", "calling" (a provider call awaits), "done"
  preferredProvider,    \* per request: request.provider ("" when not given)
  pos,                  \* per request: 0 = the preferred call, i = index in fallbackChain
  attempts,             \* per request: the providers called so far, in call order
  fullText,             \* per request: fullText of the provider call in progress
  sent,                 \* per request: the stream messages sent on the socket
  streamResult,         \* per request: what processPromptWithStreaming returned or threw
  activeRequests,       \* StreamingHandler.activeRequests (keys)
  requestAborted,       \* requests whose handler-side AbortController was aborted
  activeStreams,        \* LLMStreamingRouter.activeStreams (keys)
  streamAborted,        \* requests whose router-side AbortController was aborted
  conversationHistory,  \* conversationContext.conversationHistory
  ctlSent,              \* the last control reply (cancel / interrupt / error) sent
  cancelMark,           \* per request: what had been sent and tried when a cancel was acknowledged
  networkCalls,         \* per request: the providers whose call reached the network, in order
  lastError,            \* per request: error.message of the last provider call that threw
  foreign,              \* per stream of another connection: running, registered, aborted
  \* --- the clock (Date.now()), in minutes for the warmup, in days for the cache
  now,
  \* --- OmniParserWarmupService (module-level state of omniParserWarmup.ts)
  warmEnabled,          \* replicateClient !== null && WARMUP_ENABLED
  timers,               \* the setInterval timers created so far: [due, live]
  warmupInterval,       \* the handle kept in warmupInterval: an index of timers, 0 for null
  lastWarmupTime,       \* 0 while no warmup has succeeded
  warmupCount,
  inFlightWarmup,       \* inFlightWarmup !== null
  pingsOutstanding,     \* replicateClient.run calls that have not settled
  ensure,               \* per caller of ensureWarm(): where it is and what it saw
  settled,              \* the last ping that settled (when, how) and the last success
  \* --- LLMElementMatcher.matchElementWithRetry, one call at a time
  matchPc,              \* "idle", "llm" (an attempt awaits llmRouter.processPrompt), "done"
  matchCall,            \* the arguments of the call: description, elements, maxRetries
  excludedIds,          \* const excludedIds of matchElementWithRetry
  attempt,              \* the loop variable
  candidates,           \* the candidates of the attempt that awaits the dispatcher
  matchResult,          \* what matchElementWithRetry returned
  attemptLog,           \* one entry per attempt made by the call
  \* --- OmniParserService: the element cache and its backing store
  redis,                \* redis !== null (REDIS_HOST is configured)
  store,                \* per cache key: what the store holds, and until when
  setexQueue,           \* the SETEX commands sent and not yet executed, oldest first
  gets,                 \* per caller of getFromCache: where it is and what it saw
  purge,                \* invalidateCache(url) between its KEYS reply and its DEL
  invalidated,          \* SpecInvalidate: the invalidateCache call under observation
  lastPut,              \* per cache key: the entry of the last put, if no invalidate followed
  evicted,              \* per cache key: a get deleted it and no put followed
  putCount,             \* the SETEX commands sent so far
  \* --- OmniParserService.detectElement, one call at a time
  detectors,            \* the detectors configured in process.env
  detect,               \* the detectElement call: where it is, what it did and returned
  \* --- OmniParserService.mergeIconTextPairs
  merge,                \* the elements parsed from a detector's answer, and the merged list
  \* --- the vision routes: POST /verify
  visionKeys,           \* the vision providers whose API key is set
  verify                \* the /verify requests being handled, and their responses

dispatchVars == <<env, textCall>>
warmVars == <<warmEnabled, timers, warmupInterval, lastWarmupTime, warmupCount,
              inFlightWarmup, pingsOutstanding, ensure, settled>>
streamVars == <<wsOpen, pc, preferredProvider, pos, attempts, fullText, sent, streamResult,
                activeRequests, requestAborted, activeStreams, streamAborted,
                conversationHistory, ctlSent, cancelMark, networkCalls, lastError, foreign>>

traceVars == <<networkCalls, lastError>>

matchVars == <<matchPc, matchCall, excludedIds, attempt, candidates, matchResult, attemptLog>>

cacheVars == <<redis, store, setexQueue, gets, purge, lastPut, evicted, putCount,
               invalidated>>

detectVars == <<detectors, detect>>
parserVars == <<merge>>
visionVars == <<visionKeys, verify>>
serviceVars == <<detectVars, parserVars, visionVars>>

(***************************************************************************)
(* Providers and credentials                                               *)
(***************************************************************************)

\* LLMRouter.processPrompt: const providers = [...]
providers == <<"openai", "claude", "gemini", "mistral", "deepseek">>

\* LLMStreamingRouter.processPromptWithStreaming: const fallbackChain = [...]
fallbackChain == <<"openai", "claude", "gemini", "mistral", "deepseek", "grok", "lambda">>

Range(s) == {s[i] : i \in 1..Len(s)}

\* "" stands for an absent preferred provider; "llama" is a name no switch case knows.
NoProvider == ""
PreferredChoices == {NoProvider, "claude", "lambda", "llama"}

\* The credential configurations explored (which API keys process.env holds).
Environments ==
  { {}, {"openai"}, {"claude", "lambda"}, {"gemini", "deepseek", "grok"}, Range(fallbackChain) }

\* The outcomes explored for a dispatch: the providers whose network call throws.
FailingChoices == { {}, {"openai"}, {"openai", "claude"}, Range(fallbackChain) }

RequestIds == {"r1"}
MaxChunks == 2

(***************************************************************************)
(* Text dispatcher: LLMRouter.processPrompt                                *)
(***************************************************************************)

\* const ordered = preferred ? [preferred, ...providers.filter(p => p !== preferred)] : providers
OrderedProviders(preferred) ==
  LET NotPreferred(p) == p # preferred
  IN  IF preferred # NoProvider
        THEN <<preferred>> \o SelectSeq(providers, NotPreferred)
        ELSE providers

\* `Unknown provider: ${provider}` (default case of callProvider in both dispatchers)
UnknownProviderMessage(p) ==
  CASE p = "llama" -> "Unknown provider: llama"
    [] p = "lambda" -> "Unknown provider: lambda"
    [] OTHER -> "Unknown provider"

\* the message a provider's network call fails with, as far as the model tells them apart
NetworkErrorMessage == "Request failed with status code 500"

NoMessage == ""

\* if (!apiKey) throw new Error('..._API_KEY not set'), the first statement of call<Provider>
TextKeyMessage(p) ==
  CASE p = "openai" -> "OPENAI_API_KEY not set"
    [] p = "claude" -> "ANTHROPIC_API_KEY not set"
    [] p = "gemini" -> "GEMINI_API_KEY not set"
    [] p = "mistral" -> "MISTRAL_API_KEY not set"
    [] p = "deepseek" -> "DEEPSEEK_API_KEY not set"
    [] OTHER -> UnknownProviderMessage(p)

\* callProvider throws before any network traffic: unknown name or no key
TextCallThrowsLocally(p) == p \notin Range(providers) \/ p \notin env

\* callProvider: throws for an unknown provider, for a missing key, or when the
\* network call fails (failing = the providers whose network call throws).
TextCallThrows(p, failing) ==
  \/ TextCallThrowsLocally(p)
  \/ p \in failing

\* err.message of the error callProvider throws
TextErrorMessage(p) ==
  IF p \notin Range(providers) THEN UnknownProviderMessage(p)
  ELSE IF p \notin env THEN TextKeyMessage(p)
  ELSE NetworkErrorMessage

\* what a processPrompt call has done so far: the providers called, those whose call
\* reached the network, and the message of the last error caught
NoTrace == [attempts |-> <<>>, network |-> <<>>, lastError |-> NoMessage]

TextTrace(trace, p, failed) ==
  [attempts |-> Append(trace.attempts, p),
   network |-> IF TextCallThrowsLocally(p) THEN trace.network ELSE Append(trace.network, p),
   lastError |-> IF failed THEN TextErrorMessage(p) ELSE trace.lastError]

TextAllFailedMessage == "[LLMRouter] All providers failed"

RECURSIVE TextLoop(_, _, _, _)
\* for (const provider of ordered) { try { return ... } catch { log } }  throw
TextLoop(ordered, i, failing, trace) ==
  IF i > Len(ordered)
    THEN [status |-> "failed", provider |-> NoProvider, trace |-> trace,
          message |-> TextAllFailedMessage]
    ELSE IF TextCallThrows(ordered[i], failing)
      THEN TextLoop(ordered, i + 1, failing, TextTrace(trace, ordered[i], TRUE))
      ELSE [status |-> "ok", provider |-> ordered[i],
            trace |-> TextTrace(trace, ordered[i], FALSE), message |-> NoMessage]

NoTextCall ==
  [status |-> "none", provider |-> NoProvider, attempts |-> <<>>, preferred |-> NoProvider,
   network |-> <<>>, lastError |-> NoMessage, message |-> NoMessage]

ProcessPrompt(preferred, failing) ==
  LET out == TextLoop(OrderedProviders(preferred), 1, failing, NoTrace)
  IN  /\ textCall' = [status |-> out.status, provider |-> out.provider,
                      attempts |-> out.trace.attempts, preferred |-> preferred,
                      network |-> out.trace.network, lastError |-> out.trace.lastError,
                      message |-> out.message]
      /\ UNCHANGED env

(***************************************************************************)
(* Streaming dispatcher: LLMStreamingRouter.processPromptWithStreaming,    *)
(* driven by StreamingHandler.handleLLMRequest                             *)
(***************************************************************************)

AllFailedMessage == "All LLM providers failed for streaming request"

NoResult == [status |-> "none", fullText |-> <<>>, provider |-> NoProvider,
             fallbackChainDefined |-> FALSE, fallbackChain |-> <<>>, message |-> NoMessage]

\* ws.send guarded by readyState, as in the onChunk callback and in send()
Send(log, msg) == IF wsOpen THEN Append(log, msg) ELSE log

\* callProviderWithStreaming without the key test of the provider functions
StreamCallThrowsUnknownOnly(p) == p \notin Range(fallbackChain)

\* callProviderWithStreaming throws before any network traffic: unknown name or no key
StreamCallThrowsLocally(p) == p \notin Range(fallbackChain) \/ p \notin env

\* if (!apiKey) throw new Error('... not configured'), the first statements of
\* call<Provider>WithStreaming; the default case of callProviderWithStreaming
StreamLocalMessage(p) ==
  CASE p = "openai" -> "OPENAI_API_KEY not configured"
    [] p = "claude" -> "ANTHROPIC_API_KEY not configured"
    [] p = "gemini" -> "GEMINI_API_KEY not configured"
    [] p = "mistral" -> "MISTRAL_API_KEY not configured"
    [] p = "deepseek" -> "DEEPSEEK_API_KEY not configured"
    [] p = "grok" -> "GROK_API_KEY not configured"
    [] p = "lambda" -> "LAMBDA_AI not configured"
    [] OTHER -> UnknownProviderMessage(p)

RECURSIVE FallbackLoopNoSkip(_, _, _, _)
\* FallbackLoop without "if (provider === preferredProvider) continue"
FallbackLoopNoSkip(i, preferred, aborted, tried) ==
  IF i > Len(fallbackChain)
    THEN [inflight |-> FALSE, pos |-> 0, attempts |-> tried]
    ELSE IF aborted
      THEN [inflight |-> FALSE, pos |-> 0, attempts |-> tried]
      ELSE IF StreamCallThrowsLocally(fallbackChain[i])
        THEN FallbackLoopNoSkip(i + 1, preferred, aborted, Append(tried, fallbackChain[i]))
        ELSE [inflight |-> TRUE, pos |-> i, attempts |-> Append(tried, fallbackChain[i])]

RECURSIVE FallbackLoop(_, _, _, _)
\* for (const provider of fallbackChain) from index i on, up to the first call that
\* reaches the network (inflight) or the end of the loop
FallbackLoop(i, preferred, aborted, tried) ==
  IF i > Len(fallbackChain)
    THEN [inflight |-> FALSE, pos |-> 0, attempts |-> tried]
    ELSE IF fallbackChain[i] = preferred
      THEN FallbackLoop(i + 1, preferred, aborted, tried)
      ELSE IF aborted
        THEN [inflight |-> FALSE, pos |-> 0, attempts |-> tried]
        ELSE IF StreamCallThrowsLocally(fallbackChain[i])
          THEN FallbackLoop(i + 1, preferred, aborted, Append(tried, fallbackChain[i]))
          ELSE [inflight |-> TRUE, pos |-> i, attempts |-> Append(tried, fallbackChain[i])]

CurrentProvider(r) == IF pos[r] = 0 THEN preferredProvider[r] ELSE fallbackChain[pos[r]]

\* The message of the last error the dispatch caught once the loop has run: that of the
\* last call the loop saw throw locally, or, when it saw none, the one caught before (err).
LoopError(run, before, err) ==
  LET threw == IF run.inflight THEN SubSeq(run.attempts, 1, Len(run.attempts) - 1)
                               ELSE run.attempts
  IN  IF Len(threw) > Len(before) THEN StreamLocalMessage(threw[Len(threw)]) ELSE err

\* finally { this.activeStreams.delete(streamId) } / { this.activeRequests.delete(requestId) }
\* without the delete
UnregisterNever(map, r) == map

\* finally { this.activeStreams.delete(streamId) } / { this.activeRequests.delete(requestId) }
Unregister(map, r) == map \ {r}

ChunkCount(log) == Cardinality({i \in 1..Len(log) : log[i].type = "llm_stream_chunk"})

\* The dispatch after a provider call threw (or at its start): either the next call is
\* in flight, or the loop is over without a result: throw, catch (LLM_ERROR, rethrow),
\* finally (activeStreams.delete); then handleLLMRequest's catch (sendError) and finally.
Settle(r, run, log, streams, reqs, before, err) ==
  /\ lastError' = [lastError EXCEPT ![r] = LoopError(run, before, err)]
  /\ networkCalls' = [networkCalls EXCEPT ![r] =
        IF run.inflight THEN Append(@, run.attempts[Len(run.attempts)]) ELSE @]
  /\ IF run.inflight
       THEN /\ pc' = [pc EXCEPT ![r] = "calling"]
            /\ pos' = [pos EXCEPT ![r] = run.pos]
            /\ attempts' = [attempts EXCEPT ![r] = run.attempts]
            /\ fullText' = [fullText EXCEPT ![r] = <<>>]
            /\ sent' = [sent EXCEPT ![r] = log]
            /\ activeStreams' = streams
            /\ activeRequests' = reqs
            /\ UNCHANGED streamResult
       ELSE /\ pc' = [pc EXCEPT ![r] = "done"]
            /\ pos' = [pos EXCEPT ![r] = 0]
            /\ attempts' = [attempts EXCEPT ![r] = run.attempts]
            /\ fullText' = [fullText EXCEPT ![r] = <<>>]
            /\ sent' = [sent EXCEPT ![r] =
                   Send(Send(log, [type |-> "llm_error", message |-> AllFailedMessage]),
                        [type |-> "error", message |-> AllFailedMessage])]
            /\ streamResult' = [streamResult EXCEPT ![r] =
                   [NoResult EXCEPT !.status = "threw", !.message = AllFailedMessage]]
            /\ activeStreams' = Unregister(streams, r)
            /\ activeRequests' = Unregister(reqs, r)

\* handleLLMRequest up to its first suspension: register the controller, push the user
\* message, enter processPromptWithStreaming (register the stream, send Start, call
\* the preferred provider, fall through the loop while calls throw locally).
HandleLLMRequest(r, preferred) ==
  /\ wsOpen
  /\ pc[r] = "idle"
  /\ preferredProvider' = [preferredProvider EXCEPT ![r] = preferred]
  /\ conversationHistory' = Append(conversationHistory, [id |-> r, role |-> "user"])
  /\ LET log == Send(sent[r], [type |-> "llm_stream_start"])
         run == IF preferred = NoProvider
                  THEN FallbackLoop(1, preferred, FALSE, <<>>)
                  ELSE IF StreamCallThrowsLocally(preferred)
                    THEN FallbackLoop(1, preferred, FALSE, <<preferred>>)
                    ELSE [inflight |-> TRUE, pos |-> 0, attempts |-> <<preferred>>]
         before == IF preferred # NoProvider /\ StreamCallThrowsLocally(preferred)
                     THEN <<preferred>> ELSE <<>>
         err == IF preferred # NoProvider /\ StreamCallThrowsLocally(preferred)
                  THEN StreamLocalMessage(preferred) ELSE NoMessage
     IN  Settle(r, run, log, activeStreams \cup {r}, activeRequests \cup {r}, before, err)
  /\ UNCHANGED <<wsOpen, requestAborted, streamAborted, ctlSent, cancelMark, foreign>>

\* The provider call in progress yields a text fragment: fullText += text; onChunk ->
\* handleChunk (dropped when the router's signal is aborted) -> ws.send when open.
ProviderChunk(r) ==
  /\ pc[r] = "calling"
  /\ r \notin streamAborted
  /\ Len(fullText[r]) < MaxChunks
  /\ ChunkCount(sent[r]) < MaxChunks
  /\ LET text == Len(fullText[r]) + 1   \* the provider's fragments, numbered as produced
     IN  /\ fullText' = [fullText EXCEPT ![r] = Append(@, text)]
         /\ sent' = [sent EXCEPT ![r] =
               Send(@, [type |-> "llm_stream_chunk", text |-> text,
                        provider |-> CurrentProvider(r)])]
  /\ UNCHANGED <<wsOpen, pc, preferredProvider, pos, attempts, streamResult, activeRequests,
                 requestAborted, activeStreams, streamAborted, conversationHistory, ctlSent,
                 cancelMark, traceVars, foreign>>

\* The provider call returns { fullText, provider, processingTime, tokenUsage }:
\* the loop ends, End is sent, finally deletes the stream; handleLLMRequest pushes the
\* assistant message, trims the history and deletes the request.
TrimHistory(h) == IF Len(h) > 20 THEN SubSeq(h, Len(h) - 19, Len(h)) ELSE h

ProviderReturn(r) ==
  /\ pc[r] = "calling"
  /\ LET res == [status |-> "ok", fullText |-> fullText[r], provider |-> CurrentProvider(r),
                 fallbackChainDefined |-> FALSE, fallbackChain |-> <<>>,
                 message |-> NoMessage]
     IN  /\ streamResult' = [streamResult EXCEPT ![r] = res]
         /\ sent' = [sent EXCEPT ![r] =
               Send(@, [type |-> "llm_stream_end", fullText |-> res.fullText,
                        provider |-> res.provider,
                        fallbackChainDefined |-> res.fallbackChainDefined,
                        fallbackChain |-> res.fallbackChain])]
  /\ pc' = [pc EXCEPT ![r] = "done"]
  /\ activeStreams' = Unregister(activeStreams, r)
  /\ activeRequests' = Unregister(activeRequests, r)
  /\ conversationHistory' =
        TrimHistory(Append(conversationHistory, [id |-> r, role |-> "assistant"]))
  /\ UNCHANGED <<wsOpen, preferredProvider, pos, attempts, fullText, requestAborted,
                 streamAborted, ctlSent, cancelMark, traceVars, foreign>>

\* the providers read through response.data.on('data', ...): callGrokWithStreaming,
\* callDeepseekWithStreaming, callLambdaWithStreaming
ListenerProviders == {"grok", "deepseek", "lambda"}

\* A 'data' event of a response whose promise has resolved on its end marker ('[DONE]',
\* data.done) before the stream has ended: the listener is still registered, so
\* fullText += text; onChunk -> handleChunk (dropped when the router's signal is aborted)
\* -> ws.send when open.
LateData(r) ==
  /\ pc[r] = "done"
  /\ streamResult[r].status = "ok"
  /\ streamResult[r].provider \in ListenerProviders
  /\ r \notin streamAborted
  /\ Len(fullText[r]) < MaxChunks
  /\ ChunkCount(sent[r]) < MaxChunks
  /\ LET text == Len(fullText[r]) + 1
     IN  /\ fullText' = [fullText EXCEPT ![r] = Append(@, text)]
         /\ sent' = [sent EXCEPT ![r] =
               Send(@, [type |-> "llm_stream_chunk", text |-> text,
                        provider |-> streamResult[r].provider])]
  /\ UNCHANGED <<wsOpen, pc, preferredProvider, pos, attempts, streamResult, activeRequests,
                 requestAborted, activeStreams, streamAborted, conversationHistory, ctlSent,
                 cancelMark, traceVars, foreign>>

\* The provider call in progress throws (network error, bad response, aborted request):
\* the catch logs and the dispatch goes on with the loop.
ProviderThrow(r) ==
  /\ pc[r] = "calling"
  /\ Settle(r, FallbackLoop(pos[r] + 1, preferredProvider[r], r \in streamAborted, attempts[r]),
            sent[r], activeStreams, activeRequests, attempts[r], NetworkErrorMessage)
  /\ UNCHANGED <<wsOpen, preferredProvider, requestAborted, streamAborted,
                 conversationHistory, ctlSent, cancelMark, foreign>>

NoReply == [type |-> "none", target |-> NoProvider, success |-> FALSE]

\* send(): the reply reaches the client only while the socket is open
Reply(msg) == IF wsOpen THEN msg ELSE ctlSent

NoMark == [set |-> FALSE, chunks |-> 0, attempts |-> 0]

\* handleCancel: abort and forget the target when it is an active request, else sendError
HandleCancel(target) ==
  /\ wsOpen
  /\ IF target # NoProvider /\ target \in activeRequests
       THEN /\ requestAborted' = requestAborted \cup {target}
            /\ activeRequests' = activeRequests \ {target}
            /\ ctlSent' = Reply([type |-> "cancel", target |-> target, success |-> TRUE])
            /\ cancelMark' = [cancelMark EXCEPT ![target] =
                  [set |-> TRUE, chunks |-> ChunkCount(sent[target]),
                   attempts |-> Len(attempts[target])]]
       ELSE /\ ctlSent' = Reply([type |-> "error", target |-> target, success |-> FALSE])
            /\ UNCHANGED <<requestAborted, activeRequests, cancelMark>>
  /\ UNCHANGED <<wsOpen, pc, preferredProvider, pos, attempts, fullText, sent, streamResult,
                 activeStreams, streamAborted, conversationHistory, traceVars, foreign>>

\* payload.targetId of an interrupt: a request of this connection, none, or an id that
\* is no request's
InterruptTargets == RequestIds \cup {NoProvider, "r0"}

\* handleInterrupt: as handleCancel for an active target, else abort and clear them all
HandleInterrupt(target) ==
  /\ wsOpen
  /\ IF target # NoProvider /\ target \in activeRequests
       THEN /\ requestAborted' = requestAborted \cup {target}
            /\ activeRequests' = activeRequests \ {target}
            /\ ctlSent' = Reply([type |-> "interrupt", target |-> target, success |-> TRUE])
            /\ cancelMark' = [cancelMark EXCEPT ![target] =
                  [set |-> TRUE, chunks |-> ChunkCount(sent[target]),
                   attempts |-> Len(attempts[target])]]
       ELSE /\ requestAborted' = requestAborted \cup activeRequests
            /\ activeRequests' = {}
            /\ ctlSent' = Reply([type |-> "interrupt", target |-> "all", success |-> TRUE])
            /\ UNCHANGED cancelMark
  /\ UNCHANGED <<wsOpen, pc, preferredProvider, pos, attempts, fullText, sent, streamResult,
                 activeStreams, streamAborted, conversationHistory, traceVars, foreign>>

\* The streams that handlers of other connections hold in the one LLMStreamingRouter
\* (export const llmStreamingRouter): registered at line 43 when their dispatch starts,
\* deleted in its finally.
ForeignStreamIds == {"s1", "s2"}

NoStream == [running |-> FALSE, registered |-> FALSE, aborted |-> FALSE]

\* another connection's handleLLMRequest enters processPromptWithStreaming
ForeignStreamStarts(id) ==
  /\ ~foreign[id].running
  /\ foreign' = [foreign EXCEPT ![id] =
        [running |-> TRUE, registered |-> TRUE, aborted |-> FALSE]]
  /\ UNCHANGED <<wsOpen, pc, preferredProvider, pos, attempts, fullText, sent, streamResult,
                 activeRequests, requestAborted, activeStreams, streamAborted,
                 conversationHistory, ctlSent, cancelMark, traceVars>>

\* another connection's dispatch ends: finally { this.activeStreams.delete(streamId) }
ForeignStreamEnds(id) ==
  /\ foreign[id].running
  /\ foreign' = [foreign EXCEPT ![id] = NoStream]
  /\ UNCHANGED <<wsOpen, pc, preferredProvider, pos, attempts, fullText, sent, streamResult,
                 activeRequests, requestAborted, activeStreams, streamAborted,
                 conversationHistory, ctlSent, cancelMark, traceVars>>

\* LLMStreamingRouter.cleanup(): abort every controller in activeStreams, then clear it
RouterCleanup(streams) ==
  [id \in DOMAIN streams |->
     IF streams[id].registered
       THEN [streams[id] EXCEPT !.registered = FALSE, !.aborted = TRUE]
       ELSE streams[id]]

\* ws 'close' / 'error': handler.cleanup() aborts and clears the handler's requests and
\* calls llmStreamingRouter.cleanup(), which aborts and clears every stream.
Close ==
  /\ wsOpen
  /\ wsOpen' = FALSE
  /\ requestAborted' = requestAborted \cup activeRequests
  /\ activeRequests' = {}
  /\ streamAborted' = streamAborted \cup activeStreams
  /\ activeStreams' = {}
  /\ foreign' = RouterCleanup(foreign)
  /\ UNCHANGED <<pc, preferredProvider, pos, attempts, fullText, sent, streamResult,
                 conversationHistory, ctlSent, cancelMark, traceVars>>

(***************************************************************************)
(* Warmup coordinator: OmniParserWarmupService.  One time unit is a minute.*)
(***************************************************************************)

WARMUP_INTERVAL_MS == 3   \* 3 * 60 * 1000 ms
WARM_TTL_MS == 4          \* 4 * 60 * 1000 ms

Callers == {"c1", "c2"}
MaxTime == 5
MaxWarmups == 2
MaxTimers == 2

\* no ping has settled
NoneSettled == [at |-> 0, ok |-> FALSE, successAt |-> 0]

NotCalled == [state |-> "idle", wasWarm |-> FALSE, joined |-> 0]

\* isWarm() without the TTL test on the age of the last success
IsWarmForever ==
  /\ warmEnabled
  /\ \/ inFlightWarmup
     \/ lastWarmupTime # 0

\* isWarm() with a time-to-live as long as the interval of the timer
IsWarmTtlIsInterval ==
  /\ warmEnabled
  /\ \/ inFlightWarmup
     \/ lastWarmupTime # 0 /\ now - lastWarmupTime < WARMUP_INTERVAL_MS

\* isWarm()
IsWarm ==
  /\ warmEnabled
  /\ \/ inFlightWarmup
     \/ lastWarmupTime # 0 /\ now - lastWarmupTime < WARM_TTL_MS

\* warmup() without "if (inFlightWarmup) return inFlightWarmup"
WarmupJoinsNever == FALSE

\* warmup(): if (inFlightWarmup) return inFlightWarmup
WarmupJoins == inFlightWarmup

\* warmup(): nothing without a client; the in-flight promise when there is one; else
\* count, mark in flight and send the ping (the async body runs up to its await).
Warmup ==
  IF ~warmEnabled \/ WarmupJoins
    THEN UNCHANGED <<warmupCount, inFlightWarmup, pingsOutstanding>>
    ELSE /\ warmupCount < MaxWarmups
         /\ warmupCount' = warmupCount + 1
         /\ inFlightWarmup' = TRUE
         /\ pingsOutstanding' = pingsOutstanding + 1

\* start(): refuse when disabled; else warm up now and every WARMUP_INTERVAL_MS
Start ==
  /\ Len(timers) < MaxTimers
  /\ IF ~warmEnabled
       THEN UNCHANGED <<timers, warmupInterval, warmupCount, inFlightWarmup, pingsOutstanding>>
       ELSE /\ Warmup
            /\ timers' = Append(timers, [due |-> now + WARMUP_INTERVAL_MS, live |-> TRUE])
            /\ warmupInterval' = Len(timers) + 1
  /\ UNCHANGED <<now, warmEnabled, lastWarmupTime, ensure, settled>>

\* stop(): clearInterval(warmupInterval); warmupInterval = null
Stop ==
  /\ IF warmupInterval # 0
       THEN /\ timers' = [timers EXCEPT ![warmupInterval].live = FALSE]
            /\ warmupInterval' = 0
       ELSE UNCHANGED <<timers, warmupInterval>>
  /\ UNCHANGED <<now, warmEnabled, lastWarmupTime, warmupCount, inFlightWarmup,
                 pingsOutstanding, ensure, settled>>

\* a setInterval callback comes due: this.warmup()
TimerFire(i) ==
  /\ timers[i].live
  /\ timers[i].due = now
  /\ Warmup
  /\ timers' = [timers EXCEPT ![i].due = @ + WARMUP_INTERVAL_MS]
  /\ UNCHANGED <<now, warmEnabled, warmupInterval, lastWarmupTime, ensure, settled>>

\* the async body of warmup() with a catch that sets lastWarmupTime as the try does
LastWarmupTimeAlways(ok) == now

\* the async body of warmup(): lastWarmupTime = Date.now() after the awaited run(), which
\* a throw of run() skips
LastWarmupTimeAfter(ok) == IF ok THEN now ELSE lastWarmupTime

\* the promise of warmup() rejects: never, the catch of the async body takes every error
WarmupRejects(ok) == FALSE

\* The ping settles: on success lastWarmupTime = Date.now(); a failure is logged; the
\* finally clears inFlightWarmup, and whoever awaits the promise goes on.
PingSettles(ok) ==
  /\ pingsOutstanding > 0
  /\ pingsOutstanding' = pingsOutstanding - 1
  /\ lastWarmupTime' = LastWarmupTimeAfter(ok)
  /\ inFlightWarmup' = FALSE
  /\ ensure' = [c \in Callers |->
        IF ensure[c].state = "awaiting"
          THEN [ensure[c] EXCEPT !.state = IF WarmupRejects(ok) THEN "threw" ELSE "done"]
          ELSE ensure[c]]
  /\ settled' = [at |-> now, ok |-> ok,
                  successAt |-> IF ok THEN now ELSE settled.successAt]
  /\ UNCHANGED <<now, warmEnabled, timers, warmupInterval, warmupCount>>

\* ensureWarm(): { wasWarm: true } at once when isWarm(), else await this.warmup().
\* joined records the number of the warmup that was in flight at the call, if any.
EnsureWarm(c) ==
  /\ ensure[c].state # "awaiting"
  /\ IF IsWarm
       THEN /\ ensure' = [ensure EXCEPT ![c] =
                  [state |-> "done", wasWarm |-> TRUE,
                   joined |-> IF inFlightWarmup THEN warmupCount ELSE 0]]
            /\ UNCHANGED <<warmupCount, inFlightWarmup, pingsOutstanding>>
       ELSE /\ Warmup
            /\ ensure' = [ensure EXCEPT ![c] =
                  [state |-> IF warmEnabled THEN "awaiting" ELSE "done", wasWarm |-> FALSE,
                   joined |-> IF inFlightWarmup THEN warmupCount ELSE 0]]
  /\ UNCHANGED <<now, warmEnabled, timers, warmupInterval, lastWarmupTime, settled>>

\* Time passes; a timer that is due fires first.
Tick ==
  /\ now < MaxTime
  /\ \A i \in 1..Len(timers) : timers[i].live => timers[i].due > now
  /\ now' = now + 1

(***************************************************************************)
(* LLMElementMatcher                                                       *)
(*                                                                         *)
(* A string is the sequence of its words; includes() is "occurs as a       *)
(* contiguous run of words".  A confidence is counted in tenths, so the    *)
(* threshold 0.5 of the source is 5 here.  The inputs carry no file name   *)
(* and no intentType, so the file-name and spotlight stages of             *)
(* preFilterCandidates (lines 128-167) are passed over as the code passes  *)
(* over them.                                                              *)
(***************************************************************************)

\* String.prototype.toLowerCase over the words the inputs use
LowerWord(w) ==
  CASE w = "Submit" -> "submit"
    [] w = "Cancel" -> "cancel"
    [] w = "Welcome" -> "welcome"
    [] w = "Button" -> "button"
    [] OTHER -> w

ToLowerCase(s) == [i \in 1..Len(s) |-> LowerWord(s[i])]

\* String.prototype.includes
Includes(s, t) ==
  \E i \in 0..(Len(s) - Len(t)) : SubSeq(s, i + 1, i + Len(t)) = t

\* Array.prototype.slice(0, n)
Slice(s, n) == SubSeq(s, 1, IF Len(s) < n THEN Len(s) ELSE n)

\* ParsedElement, as far as the matcher reads it
Element(id, content, interactivity) ==
  [id |-> id, content |-> content, interactivity |-> interactivity]

\* element: null
NoElement == Element(-1, <<>>, FALSE)

elSubmit == Element(1, <<"Submit">>, TRUE)
elCancel == Element(2, <<"Cancel">>, TRUE)
elTimer == Element(3, <<"1.5s">>, FALSE)
elIcon == Element(4, <<>>, TRUE)
elWelcome == Element(5, <<"Welcome">>, FALSE)
elButton == Element(6, <<"Button">>, TRUE)

ElementLists ==
  { <<>>, <<elSubmit, elCancel>>, <<elTimer, elIcon>>, <<elWelcome, elSubmit>>,
    <<elCancel, elWelcome, elSubmit>>, <<elButton, elSubmit>> }

Descriptions ==
  { <<"submit", "button">>, <<"Cancel">>, <<"search", "field">>, <<"settings">> }

\* options.excludedElementIds
ExcludedChoices == { {}, {1}, {1, 2} }

\* options.maxRetries; 0 stands for "not given"
MaxRetriesChoices == { 0, 1, 2 }

\* What llmRouter.processPrompt gives back: it throws, or it returns a text that is not
\* the JSON object asked for, or one that is.  In an answer of kind "fraction" the number
\* given as elementIndex is no integer: it is elementIndex + 1/2.
LLMResponses ==
  { [kind |-> "throw", elementIndex |-> 0, confidence |-> 0],
    [kind |-> "text", elementIndex |-> 0, confidence |-> 0] }
  \cup [kind : {"json"}, elementIndex : 0..3, confidence : {2, 5, 9, 11}]
  \cup [kind : {"fraction"}, elementIndex : 0..2, confidence : {2, 9}]

\* preFilterCandidates: the words that mark log and timer noise (lines 121-124)
NoiseWords == {"1.5s", "backend:", "frontend:", "thinking", "iteration", "llm:", "action"}

IsClean(elem) ==
  /\ elem.content # <<>>
  /\ \A i \in 1..Len(elem.content) : LowerWord(elem.content[i]) \notin NoiseWords

interactiveKeywords ==
  { <<"input">>, <<"button">>, <<"field">>, <<"box">>, <<"click">>, <<"select">>,
    <<"dropdown">> }

inputFieldKeywords ==
  { <<"input", "field">>, <<"text", "field">>, <<"search", "field">>, <<"search", "box">>,
    <<"input", "box">> }

IsInteractive(e) == e.interactivity
IsNotInteractive(e) == ~e.interactivity

PreFilterCandidates(description, elements) ==
  LET descLower == ToLowerCase(description)
      cleanElements == SelectSeq(elements, IsClean)
      IsExact(elem) == ToLowerCase(elem.content) = descLower
      IsSubstring(elem) ==
        \/ Includes(descLower, ToLowerCase(elem.content))
        \/ Includes(ToLowerCase(elem.content), descLower)
      exactMatches == SelectSeq(cleanElements, IsExact)
      substringMatches == SelectSeq(cleanElements, IsSubstring)
      needsInteractive == \E kw \in interactiveKeywords : Includes(descLower, kw)
      isInputFieldDescription == \E kw \in inputFieldKeywords : Includes(descLower, kw)
  IN  IF Len(exactMatches) > 0 THEN Slice(exactMatches, 10)
      ELSE IF Len(substringMatches) > 0
        THEN IF needsInteractive
               THEN Slice(SelectSeq(substringMatches, IsInteractive), 20)
                    \o Slice(SelectSeq(substringMatches, IsNotInteractive), 10)
               ELSE Slice(substringMatches, 30)
      ELSE IF isInputFieldDescription
        THEN Slice(SelectSeq(cleanElements, IsNotInteractive), 30)
             \o Slice(SelectSeq(cleanElements, IsInteractive), 20)
      ELSE Slice(SelectSeq(cleanElements, IsInteractive), 40)
           \o Slice(SelectSeq(cleanElements, IsNotInteractive), 10)

MatchResult(element, confidence, reasoning) ==
  [element |-> element, confidence |-> confidence, reasoning |-> reasoning]

\* the test of line 311 passes: typeof elementIndex is 'number', and neither
\* elementIndex < 1 nor elementIndex > candidates.length.  For elementIndex + 1/2 that is
\* elementIndex >= 1 and elementIndex < candidates.length.
IndexPasses(response, n) ==
  \/ response.kind = "json" /\ response.elementIndex >= 1 /\ response.elementIndex <= n
  \/ response.kind = "fraction" /\ response.elementIndex >= 1 /\ response.elementIndex < n

\* parseLLMResponse without the test of the confidence (line 314)
WellFormedAnyConfidence(response, found) == IndexPasses(response, Len(found))

\* parseLLMResponse accepts the answer: it parses, and index and confidence are in range
WellFormed(response, found) ==
  /\ IndexPasses(response, Len(found))
  /\ response.confidence >= 0 /\ response.confidence <= 10

\* candidates[elementIndex - 1]: undefined when elementIndex is no integer
CandidateAt(response, found) ==
  IF response.kind = "fraction" THEN NoElement ELSE found[response.elementIndex]

ParseLLMResponse(response, found) ==
  IF WellFormed(response, found)
    THEN MatchResult(CandidateAt(response, found), response.confidence, "LLM match")
    ELSE MatchResult(found[1], 5, "Failed to parse LLM response")

\* matchElement without the early returns of lines 70-86: the dispatcher is asked whatever
\* the candidates are
MatchElementBeginAlwaysAsks(description, elements, excluded) ==
  LET NotExcluded(e) == e.id \notin excluded
      found == PreFilterCandidates(description, SelectSeq(elements, NotExcluded))
  IN  [awaits |-> TRUE, candidates |-> found, result |-> MatchResult(NoElement, 0, "")]

\* matchElement up to its await (lines 70-89): either it returns at once with no element,
\* or it has candidates and asks the dispatcher.
MatchElementBegin(description, elements, excluded) ==
  IF Len(elements) = 0
    THEN [awaits |-> FALSE, candidates |-> <<>>,
          result |-> MatchResult(NoElement, 0, "No elements provided")]
    ELSE LET NotExcluded(e) == e.id \notin excluded
             availableElements ==
               IF Cardinality(excluded) > 0 THEN SelectSeq(elements, NotExcluded)
                                            ELSE elements
             found == PreFilterCandidates(description, availableElements)
         IN  IF Len(availableElements) = 0
               THEN [awaits |-> FALSE, candidates |-> <<>>,
                     result |-> MatchResult(NoElement, 0,
                                  "All elements have been excluded from previous attempts")]
             ELSE IF Len(found) = 0
               THEN [awaits |-> FALSE, candidates |-> <<>>,
                     result |-> MatchResult(NoElement, 0, "No matching candidates found")]
             ELSE [awaits |-> TRUE, candidates |-> found,
                   result |-> MatchResult(NoElement, 0, "")]

\* matchElement: the low-confidence test of line 97 on what parseLLMResponse returned
LowConfidence(response, found) ==
  /\ response.kind # "throw"
  /\ ParseLLMResponse(response, found).confidence < 5

\* matchElement after its await, without the catch of line 109: a failure of the
\* dispatcher leaves the attempt without an element
MatchElementEndNoCatch(response, found) ==
  IF response.kind = "throw" \/ LowConfidence(response, found)
    THEN MatchResult(NoElement, 0, "LLM matching failed")
    ELSE ParseLLMResponse(response, found)

\* matchElement after its await (lines 91-112).  A throw of processPrompt and the
\* low-confidence throw of lines 102/104 are both inside the try, so both end in the
\* catch of line 109, which returns the first candidate.
MatchElementEnd(response, found) ==
  IF response.kind = "throw" \/ LowConfidence(response, found)
    THEN MatchResult(found[1], 5, "LLM matching failed, using first candidate")
    ELSE ParseLLMResponse(response, found)

Ids(elements) == [i \in 1..Len(elements) |-> elements[i].id]

\* one line of the attempt log: what an attempt of matchElementWithRetry saw and did
LogEntry(a, excluded, found, response, result) ==
  [attempt |-> a, excluded |-> excluded, candidates |-> Ids(found),
   invoked |-> Len(found) > 0,
   kind |-> response.kind, elementIndex |-> response.elementIndex,
   parsed |-> IF Len(found) > 0 /\ response.kind # "throw"
                THEN LET r == ParseLLMResponse(response, found)
                     IN  [id |-> r.element.id, confidence |-> r.confidence]
                ELSE [id |-> NoElement.id, confidence |-> 0],
   resultConfidence |-> result.confidence,
   wellFormed |-> Len(found) > 0 /\ WellFormed(response, found),
   confidence |-> response.confidence,
   rejected |-> IF Len(found) > 0 /\ LowConfidence(response, found)
                  THEN {ParseLLMResponse(response, found).element.id} ELSE {},
   returned |-> result.element.id]

NoResponse == [kind |-> "none", elementIndex |-> 0, confidence |-> 0]

NoMatchCall == [description |-> <<>>, elements |-> <<>>, maxRetries |-> 0]

NoMatchResult ==
  [element |-> NoElement, confidence |-> 0, reasoning |-> "", attemptNumber |-> 0,
   excludedCount |-> 0]

\* return { ...result, attemptNumber: attempt, excludedCount: excludedIds.length }
Numbered(result, a, excluded) ==
  [element |-> result.element, confidence |-> result.confidence,
   reasoning |-> result.reasoning, attemptNumber |-> a,
   excludedCount |-> Cardinality(excluded)]

\* The loop of matchElementWithRetry from attempt a on, as far as it runs without awaiting
\* the dispatcher.  excludedIds is the array of line 46; the loop passes it on and never
\* adds to it.
\* the loop test with one attempt too many: attempt <= maxRetries + 1
LoopEndsLate(a, maxRetries) == a > maxRetries + 1

\* the negation of the loop test of line 48: attempt <= maxRetries
LoopEnds(a, maxRetries) == a > maxRetries

RECURSIVE RetryFrom(_, _, _, _, _, _)
RetryFrom(a, description, elements, excluded, maxRetries, log) ==
  IF LoopEnds(a, maxRetries)
    THEN [pc |-> "done", attempt |-> maxRetries, candidates |-> <<>>, log |-> log,
          result |-> Numbered(MatchResult(NoElement, 0, "No match found after attempts"),
                              maxRetries, excluded)]
    ELSE LET m == MatchElementBegin(description, elements, excluded)
         IN  IF m.awaits
               THEN [pc |-> "llm", attempt |-> a, candidates |-> m.candidates, log |-> log,
                     result |-> NoMatchResult]
             ELSE IF m.result.element # NoElement
               THEN [pc |-> "done", attempt |-> a, candidates |-> <<>>,
                     log |-> Append(log, LogEntry(a, excluded, <<>>, NoResponse, m.result)),
                     result |-> Numbered(m.result, a, excluded)]
             ELSE RetryFrom(a + 1, description, elements, excluded, maxRetries,
                            Append(log, LogEntry(a, excluded, <<>>, NoResponse, m.result)))

Resume(run) ==
  /\ matchPc' = run.pc
  /\ attempt' = run.attempt
  /\ candidates' = run.candidates
  /\ attemptLog' = run.log
  /\ matchResult' = run.result

MatchElementWithRetry(description, elements, excluded, maxRetriesOption) ==
  /\ matchPc # "llm"
  /\ LET maxRetries == IF maxRetriesOption = 0 THEN 3 ELSE maxRetriesOption
     IN  /\ matchCall' = [description |-> description, elements |-> elements,
                          maxRetries |-> maxRetries]
         /\ excludedIds' = excluded
         /\ Resume(RetryFrom(1, description, elements, excluded, maxRetries, <<>>))

\* llmRouter.processPrompt settles and the attempt that awaited it goes on
LLMResponds(response) ==
  /\ matchPc = "llm"
  /\ LET result == MatchElementEnd(response, candidates)
         log == Append(attemptLog,
                       LogEntry(attempt, excludedIds, candidates, response, result))
     IN  IF result.element # NoElement
           THEN Resume([pc |-> "done", attempt |-> attempt, candidates |-> candidates,
                        log |-> log, result |-> Numbered(result, attempt, excludedIds)])
           ELSE Resume(RetryFrom(attempt + 1, matchCall.description, matchCall.elements,
                                 excludedIds, matchCall.maxRetries, log))
  /\ UNCHANGED <<matchCall, excludedIds>>

InitMatcher ==
  /\ matchPc = "idle"
  /\ matchCall = NoMatchCall
  /\ excludedIds = {}
  /\ attempt = 0
  /\ candidates = <<>>
  /\ matchResult = NoMatchResult
  /\ attemptLog = <<>>

(***************************************************************************)
(* OmniParserService: the element cache                                    *)
(*                                                                         *)
(* The clock counts days here, so CACHE_TTL_SECONDS, three days in the     *)
(* source, is 3.  A url and a cache key are sequences of pieces of text;   *)
(* ':' and every character that means something in a glob pattern is a     *)
(* piece of its own.  Numbers are finite: JSON.stringify writes NaN and    *)
(* Infinity as null, and no such value is among the inputs.                *)
(***************************************************************************)

CACHE_TTL_SECONDS == 3

CACHE_PREFIX == "omniparser"

\* "https://shop" and "https://shop:8443/cart"
Urls == { <<"https", ":", "//shop">>, <<"https", ":", "//shop", ":", "8443/cart">> }

\* "http://[::1]/", a url with an IPv6 host
BracketUrl == <<"http", ":", "//", "[", ":", ":", "1", "]", "/">>

\* the urls invalidateCache is explored with
InvalidateUrls == Urls \cup {BracketUrl}

\* hashScreenshot(screenshot.base64)
Hashes == { "3fa9c2d17be04a65" }

InvalidateHashes == Hashes \cup { "b07e611c9d2a48f3" }

\* `${this.CACHE_PREFIX}:${url}:${screenshotHash}`
GetCacheKey(url, screenshotHash) == <<CACHE_PREFIX, ":">> \o url \o <<":", screenshotHash>>

CacheKeys == { GetCacheKey(u, h) : u \in InvalidateUrls, h \in InvalidateHashes }

\* the index of the first "]" of a pattern, 0 when it has none
ClassEnd(pattern) ==
  LET closing == { i \in 1..Len(pattern) : pattern[i] = "]" }
  IN  IF closing = {} THEN 0 ELSE CHOOSE i \in closing : \A j \in closing : i <= j

\* the pieces of text that are one character long
SingleCharacters == {":", "[", "]", "1", "/", "?", "*"}

RECURSIVE GlobMatch(_, _)
\* The glob match of the store's KEYS command: "*" stands for any text, "?" for one
\* character, "[...]" for one of the characters between the brackets; anything else
\* stands for itself.
GlobMatch(pattern, text) ==
  IF Len(pattern) = 0 THEN Len(text) = 0
  ELSE IF Head(pattern) = "*"
    THEN \/ GlobMatch(Tail(pattern), text)
         \/ Len(text) > 0 /\ GlobMatch(pattern, Tail(text))
  ELSE IF Len(text) = 0 THEN FALSE
  ELSE IF Head(pattern) = "?"
    THEN Head(text) \in SingleCharacters /\ GlobMatch(Tail(pattern), Tail(text))
  ELSE IF Head(pattern) = "[" /\ ClassEnd(pattern) > 0
    THEN /\ Head(text) \in Range(SubSeq(pattern, 2, ClassEnd(pattern) - 1))
         /\ GlobMatch(SubSeq(pattern, ClassEnd(pattern) + 1, Len(pattern)), Tail(text))
  ELSE Head(text) = Head(pattern) /\ GlobMatch(Tail(pattern), Tail(text))

\* redis.keys(`${this.CACHE_PREFIX}:${url}:*`): does the key match the pattern
MatchesPattern(key, url) ==
  GlobMatch(<<CACHE_PREFIX, ":">> \o url \o <<":", "*">>, key)

\* the value of a property that is undefined or missing
Undefined == [undefined |-> TRUE]

\* context.windowBounds
WindowBoundsChoices == { Undefined, [x |-> 0, y |-> 25, width |-> 800, height |-> 600] }

\* what callOmniParserAPI returned
DetectedLists == { <<elSubmit, elCancel>> }

\* The object detectElement hands to saveToCache (lines 121-129); windowBounds is always a
\* property of it, with the value undefined when the context has none.
CachedElements(elements, timestamp, url, screenshotHash, windowBounds) ==
  [elements |-> elements, timestamp |-> timestamp, url |-> url,
   screenshotHash |-> screenshotHash, screenshotWidth |-> 1440,
   screenshotHeight |-> 900, windowBounds |-> windowBounds]

MemberNames ==
  <<"elements", "timestamp", "url", "screenshotHash", "screenshotWidth",
    "screenshotHeight", "windowBounds">>

\* obj[name] in JavaScript: undefined when the object has no such property
ReadMember(obj, name) == IF name \in DOMAIN obj THEN obj[name] ELSE Undefined

\* JSON.stringify of a CachedElements: the members in property order, as name/value
\* pairs; a member whose value is undefined is left out.
JsonStringify(data) ==
  LET Written(name) ==
        /\ name \in DOMAIN data
        /\ name = "windowBounds" => data[name] # Undefined
      names == SelectSeq(MemberNames, Written)
  IN  [i \in 1..Len(names) |-> <<names[i], data[names[i]]>>]

\* JSON.parse: an object with exactly the members written in the text
JsonParse(text) ==
  LET ValueOf(name) == text[CHOOSE i \in 1..Len(text) : text[i][1] = name][2]
  IN  [name \in { text[i][1] : i \in 1..Len(text) } |-> ValueOf(name)]

\* two entries are identical when every property reads the same in both
SameEntry(a, b) ==
  \A i \in 1..Len(MemberNames) : ReadMember(a, MemberNames[i]) = ReadMember(b, MemberNames[i])

\* a staleness test that lets an entry live one day longer
IsStaleLate(age) == age > CACHE_TTL_SECONDS + 1

\* getFromCache: if (age > this.CACHE_TTL_SECONDS * 1000)
IsStale(age) == age > CACHE_TTL_SECONDS

NoEntry == [present |-> FALSE, value |-> <<>>, expireAt |-> 0]

NoData == [absent |-> TRUE]

Getters == { "g1" }

\* a call of getFromCache: its key, the age it computed (-1 if it found nothing) from the
\* timestamp (stamp) of what it found, what it
\* returned, and the entry that the last put of the key left there to be found: put no
\* longer ago than the retention window, with no put or invalidate of the key since
NoGet ==
  [state |-> "idle", key |-> <<>>, age |-> -1, stamp |-> 0, hit |-> FALSE,
   data |-> NoData, expected |-> NoData]

NoPurge == [active |-> FALSE, keys |-> {}]

\* the keys the store holds
Present(held) == { k \in CacheKeys : held[k].present }

\* The invalidateCache call under observation: its arguments ("" for no hash), the keys
\* the store held when it was made, and whether it has just returned.
NoInvalidate == [url |-> <<>>, hash |-> "", before |-> {}, returned |-> FALSE]

\* an invalidateCache call is made; it returns in the same step or awaits its DEL.
\* A call made while the observed one awaits its DEL is not observed.
ObserveCall(url, screenshotHash, returned) ==
  IF purge.active
    THEN UNCHANGED invalidated
    ELSE invalidated' = [url |-> url, hash |-> screenshotHash, before |-> Present(store),
                         returned |-> returned]

\* the call under observation returns
ObserveReturn == invalidated' = [invalidated EXCEPT !.returned = TRUE]

\* a step of the cache that is no invalidateCache call
ObserveOther == invalidated' = [invalidated EXCEPT !.returned = FALSE]

MaxPuts == 2

\* saveToCache as detectElement calls it (lines 121-129, 460-462): the entry is built with
\* timestamp Date.now() and serialised at the call; the SETEX command is then on its way
\* to the store.  Without a store it does nothing.  One write is in flight at a time.
SaveToCache(url, screenshotHash, elements, windowBounds) ==
  /\ putCount < MaxPuts
  /\ Len(setexQueue) = 0
  /\ IF redis
       THEN LET data == CachedElements(elements, now, url, screenshotHash, windowBounds)
            IN  /\ setexQueue' = Append(setexQueue,
                       [key |-> GetCacheKey(url, screenshotHash),
                        value |-> JsonStringify(data), data |-> data])
                /\ putCount' = putCount + 1
       ELSE UNCHANGED <<setexQueue, putCount>>
  /\ UNCHANGED <<redis, store, gets, purge, lastPut, evicted>>

\* The store executes the oldest SETEX: the key now holds the value and expires
\* CACHE_TTL_SECONDS after this moment.  This is where the put is done.
SetexArrives ==
  /\ Len(setexQueue) > 0
  /\ LET s == Head(setexQueue)
     IN  /\ store' = [store EXCEPT ![s.key] =
                [present |-> TRUE, value |-> s.value,
                 expireAt |-> now + CACHE_TTL_SECONDS]]
         /\ lastPut' = [lastPut EXCEPT ![s.key] = s.data]
         /\ evicted' = [evicted EXCEPT ![s.key] = FALSE]
  /\ setexQueue' = Tail(setexQueue)
  /\ UNCHANGED <<redis, gets, purge, putCount>>

\* getFromCache up to the reply of redis.get (lines 442-449): a miss and a fresh entry end
\* the call; for a stale entry the call goes on to await redis.del.
GetFromCache(g, url, screenshotHash) ==
  /\ gets[g].state # "evicting"
  /\ LET cacheKey == GetCacheKey(url, screenshotHash)
         cached == store[cacheKey]
         data == JsonParse(cached.value)
         age == now - ReadMember(data, "timestamp")
         inWindow == /\ lastPut[cacheKey] # NoData
                     /\ now - lastPut[cacheKey].timestamp < CACHE_TTL_SECONDS
         call == [NoGet EXCEPT !.key = cacheKey,
                               !.expected = IF inWindow THEN lastPut[cacheKey] ELSE NoData]
     IN  gets' = [gets EXCEPT ![g] =
           IF ~redis \/ ~cached.present
             THEN [call EXCEPT !.state = "done"]
           ELSE IF IsStale(age)
             THEN [call EXCEPT !.state = "evicting", !.age = age,
                               !.stamp = ReadMember(data, "timestamp")]
           ELSE [call EXCEPT !.state = "done", !.age = age,
                             !.stamp = ReadMember(data, "timestamp"),
                             !.hit = TRUE, !.data = data]]
  /\ UNCHANGED <<redis, store, setexQueue, purge, lastPut, evicted, putCount>>

\* getFromCache, lines 450-451: the store executes the DEL and the call returns null
GetEvict(g) ==
  /\ gets[g].state = "evicting"
  /\ store' = [store EXCEPT ![gets[g].key] = NoEntry]
  /\ evicted' = [evicted EXCEPT ![gets[g].key] = TRUE]
  /\ gets' = [gets EXCEPT ![g].state = "done"]
  /\ UNCHANGED <<redis, setexQueue, purge, lastPut, putCount>>

\* invalidateCache(url, screenshotHash): one DEL
InvalidateEntry(url, screenshotHash) ==
  /\ redis
  /\ store' = [store EXCEPT ![GetCacheKey(url, screenshotHash)] = NoEntry]
  /\ lastPut' = [lastPut EXCEPT ![GetCacheKey(url, screenshotHash)] = NoData]
  /\ UNCHANGED <<redis, setexQueue, gets, purge, evicted, putCount>>

\* invalidateCache(url): the reply of redis.keys(pattern); with no key the call returns
InvalidateKeys(url) ==
  /\ redis
  /\ ~purge.active
  /\ LET keys == { k \in CacheKeys : store[k].present /\ MatchesPattern(k, url) }
     IN  purge' = IF keys = {} THEN NoPurge ELSE [active |-> TRUE, keys |-> keys]
  /\ UNCHANGED <<redis, store, setexQueue, gets, lastPut, evicted, putCount>>

\* invalidateCache(url): the store executes redis.del(...keys) and the call returns
InvalidateDel ==
  /\ purge.active
  /\ store' = [k \in CacheKeys |-> IF k \in purge.keys THEN NoEntry ELSE store[k]]
  /\ lastPut' = [k \in CacheKeys |-> IF k \in purge.keys THEN NoData ELSE lastPut[k]]
  /\ purge' = NoPurge
  /\ UNCHANGED <<redis, setexQueue, gets, evicted, putCount>>

\* Time passes in the cache: the store drops the keys whose time to live is over
\* (a key set with SETEX at t is gone once the clock is past t + CACHE_TTL_SECONDS).
CacheTick ==
  /\ Tick
  /\ store' = [k \in CacheKeys |->
                 IF store[k].present /\ store[k].expireAt < now + 1 THEN NoEntry
                                                                    ELSE store[k]]
  /\ UNCHANGED <<redis, setexQueue, gets, purge, lastPut, evicted, putCount>>

InitCache ==
  /\ redis \in BOOLEAN
  /\ store = [k \in CacheKeys |-> NoEntry]
  /\ setexQueue = <<>>
  /\ gets = [g \in Getters |-> NoGet]
  /\ purge = NoPurge
  /\ invalidated = NoInvalidate
  /\ lastPut = [k \in CacheKeys |-> NoData]
  /\ evicted = [k \in CacheKeys |-> FALSE]
  /\ putCount = 0

\* the cache as the other specifications see it: no store configured, never used
IdleCache == InitCache /\ redis = FALSE

(***************************************************************************)
(* OmniParserService: the store failing, the detectors, detectElement      *)
(***************************************************************************)

cacheState == <<redis, store, setexQueue, gets, purge, lastPut, evicted, putCount>>

\* getFromCache without its try/catch: the error of the store goes to the caller
FailedGetThrows(call) == [call EXCEPT !.state = "threw"]

\* getFromCache: catch (error) { logger.error(...); return null }
FailedGet(call) == [call EXCEPT !.state = "done", !.hit = FALSE, !.data = NoData]

\* getFromCache when redis.get rejects
GetFails(g, url, screenshotHash) ==
  /\ redis
  /\ gets[g].state # "evicting"
  /\ gets' = [gets EXCEPT ![g] =
        FailedGet([NoGet EXCEPT !.key = GetCacheKey(url, screenshotHash)])]
  /\ UNCHANGED <<redis, store, setexQueue, purge, lastPut, evicted, putCount>>

\* getFromCache when the redis.del of a stale entry rejects
GetEvictFails(g) ==
  /\ gets[g].state = "evicting"
  /\ gets' = [gets EXCEPT ![g] = FailedGet(gets[g])]
  /\ UNCHANGED <<redis, store, setexQueue, purge, lastPut, evicted, putCount>>

\* saveToCache when redis.setex rejects: the catch logs, nothing is written
SaveFails ==
  /\ redis
  /\ UNCHANGED cacheState

\* invalidateCache when redis.del or redis.keys rejects: the catch logs, nothing is deleted
InvalidateFails ==
  /\ redis
  /\ ~purge.active
  /\ UNCHANGED cacheState

\* HUGGINGFACE_OMNIPARSER_ENDPOINT, USE_MODAL, replicateClient
DetectorNames == {"huggingface", "modal", "replicate"}

\* detectElement: if (!this.isAvailable()) throw new Error(...)
NotAvailableMessage == "OmniParser not available"

\* callOmniParserAPI: if (!replicateClient) throw new Error(...)
NoDetectorMessage == "No OmniParser provider configured"

\* the rejection of Promise.race([apiPromise, timeoutPromise])
ReplicateErrorMessage == "OmniParser API timeout after 180000ms"

\* the rejection of a command of the store
StoreErrorMessage == "Connection is closed."

\* callOmniParserAPI with the Modal block placed before the Hugging Face block
CallOmniParserAPIModalFirst(configured, failing) ==
  LET hf == IF "huggingface" \in configured THEN <<"huggingface">> ELSE <<>>
      hfReturns == "huggingface" \in configured /\ "huggingface" \notin failing
      modal == IF "modal" \in configured THEN <<"modal">> ELSE <<>>
      modalReturns == "modal" \in configured /\ "modal" \notin failing
  IN  IF modalReturns
        THEN [ok |-> TRUE, calls |-> modal, source |-> "modal", message |-> NoMessage]
      ELSE IF hfReturns
        THEN [ok |-> TRUE, calls |-> modal \o hf, source |-> "huggingface", message |-> NoMessage]
      ELSE [ok |-> FALSE, calls |-> modal \o hf, source |-> "", message |-> NoDetectorMessage]

\* callOmniParserAPI: Hugging Face and Modal inside try/catch, then Replicate, whose
\* errors are not caught.  failing = the detectors whose call (or whose answer's parsing)
\* throws.  calls = the detectors called, in order; source = the one whose elements are
\* returned.
CallOmniParserAPI(configured, failing) ==
  LET hf == IF "huggingface" \in configured THEN <<"huggingface">> ELSE <<>>
      hfReturns == "huggingface" \in configured /\ "huggingface" \notin failing
      modal == IF "modal" \in configured THEN <<"modal">> ELSE <<>>
      modalReturns == "modal" \in configured /\ "modal" \notin failing
  IN  IF hfReturns
        THEN [ok |-> TRUE, calls |-> hf, source |-> "huggingface", message |-> NoMessage]
      ELSE IF modalReturns
        THEN [ok |-> TRUE, calls |-> hf \o modal, source |-> "modal", message |-> NoMessage]
      ELSE IF "replicate" \notin configured
        THEN [ok |-> FALSE, calls |-> hf \o modal, source |-> "", message |-> NoDetectorMessage]
      ELSE IF "replicate" \in failing
        THEN [ok |-> FALSE, calls |-> hf \o modal \o <<"replicate">>, source |-> "",
              message |-> ReplicateErrorMessage]
      ELSE [ok |-> TRUE, calls |-> hf \o modal \o <<"replicate">>, source |-> "replicate",
            message |-> NoMessage]

\* context?.url || context?.activeUrl || 'unknown'
DetectUrls == { <<"https", ":", "//shop">> }

\* the getter detectElement reads the cache as
Detector == "g1"

\* description === 'fetch_all_elements'
FetchAll == <<"fetch_all_elements">>

\* the descriptions detectElement is called with
DetectDescriptions == { FetchAll, <<"submit", "button">> }

\* what the detectors make of the screenshot: a form, or nothing but noise
DetectorAnswers == { <<elSubmit, elCancel>>, <<elTimer, elIcon>> }

\* throw new Error(`Element not found: ${description}`)
ElementNotFoundMessage == "Element not found"

\* data.bbox of the i-th line of a detector's answer, in hundredths of the screenshot
NormalizedBbox(i) == <<10 * i, 20, 10 * i + 5, 30>>

\* parseOmniParserElements, lines 279-292: the box in pixels of a screenshot of 1440 x 900
\* (the defaults of lines 176-177), moved by the window's offset when the context has one
AbsoluteBbox(normalizedBbox, windowBounds) ==
  LET dx == IF windowBounds = Undefined THEN 0 ELSE windowBounds.x
      dy == IF windowBounds = Undefined THEN 0 ELSE windowBounds.y
  IN  [x1 |-> (normalizedBbox[1] * 1440) \div 100 + dx,
       y1 |-> (normalizedBbox[2] * 900) \div 100 + dy,
       x2 |-> (normalizedBbox[3] * 1440) \div 100 + dx,
       y2 |-> (normalizedBbox[4] * 900) \div 100 + dy]

\* the elements callOmniParserAPI returns for a detector's answer (lines 174-179,
\* 197-202, 236-241): each with its box for the window of this request
Located(elements, windowBounds) ==
  [i \in 1..Len(elements) |->
     [id |-> elements[i].id, content |-> elements[i].content,
      interactivity |-> elements[i].interactivity,
      normalizedBbox |-> NormalizedBbox(i),
      bbox |-> AbsoluteBbox(NormalizedBbox(i), windowBounds)]]

\* Math.round((a + b) / 2) for a, b >= 0
RoundedMiddle(a, b) == (a + b + 1) \div 2

\* findElementInCache, lines 417-420
Center(bbox) == [x |-> RoundedMiddle(bbox.x1, bbox.x2), y |-> RoundedMiddle(bbox.y1, bbox.y2)]

\* What matchElementWithRetry(description, elements, { maxRetries: 3 }) can return, over
\* all answers of the dispatcher: what one attempt can return, since the call returns the
\* first attempt's element, and none when every attempt had none.
Resolutions(description, elements) ==
  LET m == MatchElementBegin(description, elements, {})
  IN  IF ~m.awaits THEN { MatchResult(NoElement, 0, "") }
      ELSE { LET r == MatchElementEnd(a, m.candidates)
             IN  MatchResult(r.element, IF r.element = NoElement THEN 0 ELSE r.confidence, "")
             : a \in LLMResponses }

NoCoordinates == [x |-> -1, y |-> -1]

NoResolution == [tried |-> FALSE, element |-> NoElement]

NoDetect ==
  [pc |-> "idle", url |-> <<>>, hash |-> "", getFailed |-> FALSE, saveFailed |-> FALSE,
   hit |-> FALSE, calls |-> <<>>, failed |-> {}, source |-> "", outcome |-> "none",
   method |-> "",
   message |-> NoMessage,
   description |-> <<>>, windowBounds |-> Undefined, cacheMatch |-> NoResolution,
   writes |-> 0, fresh |-> <<>>, selected |-> NoElement, coordinates |-> NoCoordinates]

\* detectElement up to the reply of redis.get (lines 80-103): it throws when no detector
\* is configured, else it reads the cache.
DetectElement(url, screenshotHash, description, windowBounds, getFails) ==
  /\ detect.pc \in {"idle", "done"}
  /\ LET call == [NoDetect EXCEPT !.url = url, !.hash = screenshotHash,
                                  !.description = description,
                                  !.windowBounds = windowBounds]
     IN  IF detectors = {}
           THEN /\ detect' = [call EXCEPT !.pc = "done", !.outcome = "threw",
                                          !.message = NotAvailableMessage]
                /\ UNCHANGED cacheState
           ELSE /\ IF getFails THEN GetFails(Detector, url, screenshotHash)
                               ELSE GetFromCache(Detector, url, screenshotHash)
                /\ detect' = [call EXCEPT !.pc = "get", !.getFailed = getFails]
  /\ UNCHANGED detectors

\* detectElement's getFromCache found a stale entry: the DEL is executed, or rejects
DetectEvict(delFails) ==
  /\ detect.pc = "get"
  /\ gets[Detector].state = "evicting"
  /\ IF delFails THEN GetEvictFails(Detector) ELSE GetEvict(Detector)
  /\ detect' = [detect EXCEPT !.getFailed = @ \/ delFails]
  /\ UNCHANGED detectors

\* lines 107-112 with the result of findElementInCache ignored
ServedFromCacheFetchAllOnly(description, match) == description = FetchAll

\* lines 107-112: a cache hit is returned when all elements are asked for, or when
\* findElementInCache found the element
ServedFromCache(description, match) ==
  description = FetchAll \/ match.element # NoElement

\* detectElement after getFromCache (lines 104-119): a hit is returned when it holds what
\* is asked for; else the detectors are called, and when none answers the error goes to
\* the caller.
DetectCall(failing) ==
  /\ detect.pc = "get"
  /\ gets[Detector].state \in {"done", "threw"}
  /\ \E match \in IF gets[Detector].state = "done" /\ gets[Detector].hit
                        /\ detect.description # FetchAll
                    THEN Resolutions(detect.description, gets[Detector].data.elements)
                    ELSE { MatchResult(NoElement, 0, "") } :
       LET api == CallOmniParserAPI(detectors, failing)
           failed == { d \in Range(api.calls) : d \in failing }
           hit == gets[Detector].state = "done" /\ gets[Detector].hit
           seen == [detect EXCEPT !.hit = hit,
                      !.cacheMatch = [tried |-> hit /\ detect.description # FetchAll,
                                      element |-> match.element]]
       IN  detect' =
             IF gets[Detector].state = "threw"
               THEN [detect EXCEPT !.pc = "done", !.outcome = "threw",
                                   !.message = StoreErrorMessage]
             ELSE IF hit /\ ServedFromCache(detect.description, match)
               THEN [seen EXCEPT !.pc = "done", !.outcome = "returned",
                                 !.method = "omniparser_cached",
                                 !.selected = match.element,
                                 !.coordinates =
                                    IF detect.description = FetchAll THEN [x |-> 0, y |-> 0]
                                    ELSE Center(match.element.bbox)]
             ELSE IF ~api.ok
               THEN [seen EXCEPT !.pc = "done", !.calls = api.calls, !.failed = failed,
                                 !.outcome = "threw", !.message = api.message]
             ELSE [seen EXCEPT !.pc = "save", !.calls = api.calls, !.failed = failed,
                               !.source = api.source]
  /\ UNCHANGED cacheState
  /\ UNCHANGED detectors

\* detectElement: await this.saveToCache(...) (lines 121-129): the SETEX is sent, or rejects
DetectSave(elements, saveFails) ==
  /\ detect.pc = "save"
  /\ IF saveFails
       THEN SaveFails
       ELSE SaveToCache(detect.url, detect.hash, Located(elements, detect.windowBounds),
                        detect.windowBounds)
  /\ detect' = [detect EXCEPT !.pc = "saving", !.saveFailed = saveFails,
                              !.writes = @ + 1,
                              !.fresh = Located(elements, detect.windowBounds)]
  /\ UNCHANGED detectors

\* detectElement: saveToCache is over (lines 131-151): the fresh elements are returned,
\* or the element findElementInCache found among them; when it found none, the call throws
DetectReturn ==
  /\ detect.pc = "saving"
  /\ Len(setexQueue) = 0
  /\ \E match \in IF detect.description = FetchAll
                    THEN { MatchResult(NoElement, 0, "") }
                    ELSE Resolutions(detect.description, detect.fresh) :
       detect' =
         IF detect.description = FetchAll
           THEN [detect EXCEPT !.pc = "done", !.outcome = "returned",
                               !.method = "omniparser", !.coordinates = [x |-> 0, y |-> 0]]
         ELSE IF match.element = NoElement
           THEN [detect EXCEPT !.pc = "done", !.outcome = "threw",
                               !.message = ElementNotFoundMessage]
         ELSE [detect EXCEPT !.pc = "done", !.outcome = "returned",
                             !.method = "omniparser", !.selected = match.element,
                             !.coordinates = Center(match.element.bbox)]
  /\ UNCHANGED cacheState
  /\ UNCHANGED detectors

InitDetector ==
  /\ detectors \in SUBSET DetectorNames
  /\ detect = NoDetect

IdleDetector == InitDetector /\ detectors = {}

(***************************************************************************)
(* OmniParserService.mergeIconTextPairs                                    *)
(*                                                                         *)
(* Normalized coordinates are in hundredths of the image; a centre is kept *)
(* doubled, x1 + x2, so that it stays an integer.                          *)
(***************************************************************************)

MaxElements == 3

\* ParsedElement, as far as the merge reads it
ParsedElement(id, type, normalizedBbox, content) ==
  [id |-> id, type |-> type, normalizedBbox |-> normalizedBbox, content |-> content]

icGeneric == ParsedElement(1, "icon", <<40, 10, 46, 16>>, "unanswerable")
icNamed == ParsedElement(2, "icon", <<40, 10, 46, 16>>, "hello-world")
icShort == ParsedElement(3, "icon", <<40, 10, 46, 16>>, "OK")
icFolder == ParsedElement(4, "icon", <<44, 10, 50, 16>>, "A Folder.")
txBudget == ParsedElement(5, "text", <<39, 17, 47, 19>>, "Budget.xlsx")
txNotes == ParsedElement(6, "text", <<43, 18, 51, 20>>, "Notes")
txReport == ParsedElement(7, "text", <<59, 17, 67, 19>>, "Report")
txClock == ParsedElement(8, "text", <<40, 17, 46, 19>>, "12:30")
txChar == ParsedElement(9, "text", <<40, 17, 46, 19>>, "x")
txMail == ParsedElement(10, "text", <<47, 22, 55, 24>>, " Mail ")
txDocs == ParsedElement(11, "text", <<41, 14, 45, 15>>, "Docs")
txApps == ParsedElement(12, "text", <<41, 13, 45, 14>>, "Apps")
txTrash == ParsedElement(13, "text", <<41, 23, 45, 25>>, "Trash")
txMon == ParsedElement(14, "text", <<39, 17, 47, 19>>, "Mon")

ElementPool ==
  { icGeneric, icNamed, icShort, icFolder, txBudget, txNotes, txReport, txClock, txChar,
    txMail, txDocs, txApps, txTrash, txMon }

\* the lists parseOmniParserElements hands to the merge
MergeInputs == UNION { [1..n -> ElementPool] : n \in 0..MaxElements }

\* String.prototype.trim
Trim(content) == IF content = " Mail " THEN "Mail" ELSE content

\* String.prototype.length
Length(content) ==
  CASE content = "x" -> 1
    [] content = "OK" -> 2
    [] content = "Mon" -> 3
    [] content \in {"Mail", "Docs", "Apps"} -> 4
    [] content \in {"12:30", "Notes", "Trash"} -> 5
    [] content \in {" Mail ", "Report"} -> 6
    [] content = "A Folder." -> 9
    [] content \in {"hello-world", "Budget.xlsx"} -> 11
    [] content = "unanswerable" -> 12

\* the i flag of the two regular expressions
LowerCase(content) ==
  CASE content = "OK" -> "ok"
    [] content = "Mon" -> "mon"
    [] content = "Mail" -> "mail"
    [] content = "Docs" -> "docs"
    [] content = "Apps" -> "apps"
    [] content = "Notes" -> "notes"
    [] content = "Trash" -> "trash"
    [] content = "Report" -> "report"
    [] content = "A Folder." -> "a folder."
    [] content = "Budget.xlsx" -> "budget.xlsx"
    [] OTHER -> content

\* the alternatives of GENERIC_ICON_CONTENT
GENERIC_ICON_CONTENT ==
  { "unanswerable", "a folder.", "a file folder.", "a bookmark.", "an arrow",
    "a loading screen", "a symbol", "a stop button", "the number", "the \"not\" function",
    "the power button", "the time or date", "the \"refresh\" function", "adding a new",
    "image blank", "remote", "a text box", "a user profile", "a low profile",
    "the option to close", "the 3-point view", "a tool for writing" }

\* GENERIC_ICON_CONTENT.test(content)
GenericTest(content) == LowerCase(content) \in GENERIC_ICON_CONTENT

\* the literal alternatives of NOISE_TEXT
NoiseLiterals ==
  { "mon", "tue", "wed", "thu", "fri", "sat", "sun", "jan", "feb", "mar", "apr", "may",
    "jun", "jul", "aug", "sep", "oct", "nov", "dec", "[", "]", "{", "}", ">", "<", "/",
    "\\", "|" }

\* the contents that match \d{1,2}:\d{2}(am|pm)? or \d+
ClockAndDigitTexts == { "12:30" }

\* NOISE_TEXT.test(content)
NoiseTest(content) ==
  LowerCase(content) \in NoiseLiterals \/ content \in ClockAndDigitTexts

LABEL_MAX_DX == 8
LABEL_MAX_DY == 6
LABEL_MIN_DY == -2

Abs(x) == IF x < 0 THEN -x ELSE x

\* twice (normalizedBbox[0] + normalizedBbox[2]) / 2
CenterX2(e) == e.normalizedBbox[1] + e.normalizedBbox[3]

\* twice Math.abs(tCx - iconCx)
Dx2(t, icon) == Abs(CenterX2(t) - CenterX2(icon))

\* tTop - iconBottom
Dy(t, icon) == t.normalizedBbox[2] - icon.normalizedBbox[4]

\* the filter without its test of dx
WithinDxAlways(t, icon) == TRUE

\* dx <= LABEL_MAX_DX
WithinDx(t, icon) == Dx2(t, icon) <= 2 * LABEL_MAX_DX

\* the filter without its test of consumedTextIds
UnconsumedAlways(t, consumed) == TRUE

\* !consumedTextIds.has(t.id)
Unconsumed(t, consumed) == t.id \notin consumed

\* the filter of the candidates of an icon (lines 348-362)
IsCandidate(t, icon, consumed) ==
  /\ Unconsumed(t, consumed)
  /\ ~NoiseTest(Trim(t.content))
  /\ Length(Trim(t.content)) >= 2
  /\ WithinDx(t, icon)
  /\ Dy(t, icon) >= LABEL_MIN_DY
  /\ Dy(t, icon) <= LABEL_MAX_DY

\* the negation of the test of line 338: the merge is attempted for this icon
MergesInto(icon) ==
  GenericTest(Trim(icon.content)) \/ Length(Trim(icon.content)) < 4

\* The loop over the icons from position k of the list on.  The icons are visited in the
\* order of the list; an icon's content is overwritten in place; pairs records, for each
\* merge, the positions of icon and label and the ids consumed before it.
RECURSIVE MergeFrom(_, _, _, _)
MergeFrom(k, elements, consumed, pairs) ==
  IF k > Len(elements)
    THEN [elements |-> elements, consumedTextIds |-> consumed, pairs |-> pairs]
    ELSE LET icon == elements[k]
             found == { j \in 1..Len(elements) :
                          /\ elements[j].type = "text"
                          /\ IsCandidate(elements[j], icon, consumed) }
             \* candidates[0] after the stable sort by distance
             best == CHOOSE j \in found :
                       \A j2 \in found :
                         \/ Dx2(elements[j], icon) < Dx2(elements[j2], icon)
                         \/ Dx2(elements[j], icon) = Dx2(elements[j2], icon) /\ j <= j2
         IN  IF icon.type # "icon" \/ ~MergesInto(icon) \/ found = {}
               THEN MergeFrom(k + 1, elements, consumed, pairs)
               ELSE MergeFrom(k + 1,
                              [elements EXCEPT ![k].content = Trim(elements[best].content)],
                              consumed \cup {elements[best].id},
                              Append(pairs, [icon |-> k, text |-> best, before |-> consumed]))

\* mergeIconTextPairs: the loop, then elements.filter(e => !consumedTextIds.has(e.id))
MergeIconTextPairs(elements) ==
  LET m == MergeFrom(1, elements, {}, <<>>)
      Kept(e) == e.id \notin m.consumedTextIds
  IN  [result |-> SelectSeq(m.elements, Kept), consumedTextIds |-> m.consumedTextIds,
       pairs |-> m.pairs]

NoMerge ==
  [pc |-> "idle", input |-> <<>>, result |-> <<>>, consumedTextIds |-> {}, pairs |-> <<>>]

\* parseOmniParserElements: return this.mergeIconTextPairs(elements, ...)
ParseOmniParserElements ==
  /\ merge.pc = "parsed"
  /\ LET m == MergeIconTextPairs(merge.input)
     IN  merge' = [merge EXCEPT !.pc = "merged", !.result = m.result,
                                !.consumedTextIds = m.consumedTextIds, !.pairs = m.pairs]

\* the lines of a detector's answer have been parsed into elements
InitMerge ==
  \E elements \in MergeInputs : merge = [NoMerge EXCEPT !.pc = "parsed", !.input = elements]

IdleMerge == merge = NoMerge

(***************************************************************************)
(* Vision routes: callVisionWithFallback and POST /verify                  *)
(***************************************************************************)

\* the providers array of callVisionWithFallback
visionProviders == <<"openai", "claude", "gemini">>

\* req.body: has it screenshot.base64, has it prompt
VerifyBodies == [screenshot : BOOLEAN, prompt : BOOLEAN]

\* what a vision provider returns as text: the JSON object asked for, with verified true,
\* false or missing; the JSON value null; or a text that is no JSON
VisionAnswers ==
  { [kind |-> "json", verified |-> "true"], [kind |-> "json", verified |-> "false"],
    [kind |-> "json", verified |-> "missing"], [kind |-> "null", verified |-> "missing"],
    [kind |-> "text", verified |-> "missing"] }

VerifyResponse(status, success, verified, degraded, provider) ==
  [status |-> status, success |-> success, verified |-> verified, degraded |-> degraded,
   provider |-> provider]

NoVerifyResponse == VerifyResponse(0, FALSE, "absent", FALSE, "")

\* res.status(400).json({ success: false, error: 'Missing required field: ...' })
MissingFieldResponse == VerifyResponse(400, FALSE, "absent", FALSE, "")

\* the catch of /analyze: res.status(500).json({ success: false, ... })
FailureResponse == VerifyResponse(500, FALSE, "absent", FALSE, "")

\* the catch of /verify (lines 246-259)
DegradedResponse == VerifyResponse(200, TRUE, "null", TRUE, "")

\* the response of /verify once a provider has answered (lines 218-245)
AnsweredResponse(answer, provider) ==
  CASE answer.kind = "text" -> VerifyResponse(200, TRUE, "false", FALSE, provider)
    \* parsed is null: reading parsed.verified throws, inside the outer try
    [] answer.kind = "null" -> DegradedResponse
    [] OTHER ->
         VerifyResponse(200, TRUE, IF answer.verified = "true" THEN "true" ELSE "false",
                        FALSE, provider)

NoVerify ==
  [pc |-> "idle", body |-> [screenshot |-> FALSE, prompt |-> FALSE], i |-> 0,
   failed |-> <<>>, response |-> NoVerifyResponse]

\* The loop of callVisionWithFallback from provider i on, up to its next await of the
\* network: a provider whose key is not set throws before any call and the loop goes on;
\* past the last provider the function throws and /verify's catch answers.
RECURSIVE VisionLoop(_, _, _)
VisionLoop(call, i, failed) ==
  IF i > Len(visionProviders)
    THEN [call EXCEPT !.pc = "done", !.i = i, !.failed = failed, !.response = DegradedResponse]
  ELSE IF visionProviders[i] \notin visionKeys
    THEN VisionLoop(call, i + 1, Append(failed, visionProviders[i]))
  ELSE [call EXCEPT !.pc = "calling", !.i = i, !.failed = failed]

\* the HTTP requests in progress at one time
Verifiers == {"v1", "v2"}

\* router.post('/verify', ...) up to the first await (lines 168-216)
PostVerify(q, body) ==
  /\ verify[q].pc \in {"idle", "done"}
  /\ verify' = [verify EXCEPT ![q] =
       IF ~body.screenshot \/ ~body.prompt
         THEN [NoVerify EXCEPT !.pc = "done", !.body = body, !.response = MissingFieldResponse]
         ELSE VisionLoop([NoVerify EXCEPT !.body = body], 1, <<>>)]
  /\ UNCHANGED visionKeys

\* the call of provider i of request q settles: with a text, or with an error
VisionSettles(q, ok, answer) ==
  /\ verify[q].pc = "calling"
  /\ LET call == verify[q]
     IN  verify' = [verify EXCEPT ![q] =
           IF ok
             THEN [call EXCEPT !.pc = "done",
                               !.response = AnsweredResponse(answer, visionProviders[call.i])]
             ELSE VisionLoop(call, call.i + 1, Append(call.failed, visionProviders[call.i]))]
  /\ UNCHANGED visionKeys

InitVision ==
  /\ visionKeys \in SUBSET Range(visionProviders)
  /\ verify = [q \in Verifiers |-> NoVerify]

IdleVision == InitVision /\ visionKeys = {}

\* the service as the other specifications see it: nothing configured, never called
IdleService == IdleDetector /\ IdleMerge /\ IdleVision

InitClock == now = 1

InitWarm ==
  /\ warmEnabled \in BOOLEAN
  /\ timers = <<>>
  /\ warmupInterval = 0
  /\ lastWarmupTime = 0
  /\ warmupCount = 0
  /\ inFlightWarmup = FALSE
  /\ pingsOutstanding = 0
  /\ ensure = [c \in Callers |-> NotCalled]
  /\ settled = NoneSettled

\* the warmup service as the other specifications see it: disabled and never started
IdleWarm == InitWarm /\ warmEnabled = FALSE

IdleEnv == env = {}

InitEnv == env \in Environments

InitText == textCall = NoTextCall

\* handleLLMRequest has returned and the client's next llm_request arrives under a
\* fresh id: what the model kept of the finished request is forgotten.  The handler
\* object, and with it conversationContext.conversationHistory, lives on.
RequestForgotten(r) ==
  /\ pc[r] = "done"
  /\ pc' = [pc EXCEPT ![r] = "idle"]
  /\ preferredProvider' = [preferredProvider EXCEPT ![r] = NoProvider]
  /\ pos' = [pos EXCEPT ![r] = 0]
  /\ attempts' = [attempts EXCEPT ![r] = <<>>]
  /\ fullText' = [fullText EXCEPT ![r] = <<>>]
  /\ sent' = [sent EXCEPT ![r] = <<>>]
  /\ streamResult' = [streamResult EXCEPT ![r] = NoResult]
  /\ requestAborted' = requestAborted \ {r}
  /\ streamAborted' = streamAborted \ {r}
  /\ cancelMark' = [cancelMark EXCEPT ![r] = NoMark]
  /\ networkCalls' = [networkCalls EXCEPT ![r] = <<>>]
  /\ lastError' = [lastError EXCEPT ![r] = NoMessage]
  /\ UNCHANGED <<wsOpen, activeRequests, activeStreams, conversationHistory, ctlSent, foreign>>

InitStream ==
  /\ wsOpen = TRUE
  /\ pc = [r \in RequestIds |-> "idle"]
  /\ preferredProvider = [r \in RequestIds |-> NoProvider]
  /\ pos = [r \in RequestIds |-> 0]
  /\ attempts = [r \in RequestIds |-> <<>>]
  /\ fullText = [r \in RequestIds |-> <<>>]
  /\ sent = [r \in RequestIds |-> <<>>]
  /\ streamResult = [r \in RequestIds |-> NoResult]
  /\ activeRequests = {}
  /\ requestAborted = {}
  /\ activeStreams = {}
  /\ streamAborted = {}
  /\ conversationHistory = <<>>
  /\ ctlSent = NoReply
  /\ cancelMark = [r \in RequestIds |-> NoMark]
  /\ networkCalls = [r \in RequestIds |-> <<>>]
  /\ lastError = [r \in RequestIds |-> NoMessage]
  /\ foreign = [id \in ForeignStreamIds |-> NoStream]

vars == <<dispatchVars, streamVars, now, warmVars, matchVars, cacheVars, serviceVars>>

StreamFrame == UNCHANGED <<dispatchVars, now, warmVars, matchVars, cacheVars, serviceVars>>
TextFrame == UNCHANGED <<streamVars, now, warmVars, matchVars, cacheVars, serviceVars>>
WarmFrame == UNCHANGED <<dispatchVars, streamVars, matchVars, cacheVars, serviceVars>>
MatchFrame == UNCHANGED <<dispatchVars, streamVars, now, warmVars, cacheVars, serviceVars>>
ObservedFrame ==
  UNCHANGED <<dispatchVars, streamVars, now, warmVars, matchVars, serviceVars>>
CacheFrame == ObservedFrame /\ UNCHANGED invalidated
CacheClockFrame ==
  UNCHANGED <<dispatchVars, streamVars, warmVars, matchVars, invalidated, serviceVars>>
\* the frame of a detectElement step, which writes the cache too
DetectFrame ==
  UNCHANGED <<dispatchVars, streamVars, now, warmVars, matchVars, invalidated, parserVars,
              visionVars>>
MergeFrame ==
  UNCHANGED <<dispatchVars, streamVars, now, warmVars, matchVars, cacheVars, detectVars,
              visionVars>>
VisionFrame ==
  UNCHANGED <<dispatchVars, streamVars, now, warmVars, matchVars, cacheVars, detectVars,
              parserVars>>

Init ==
  InitEnv /\ InitText /\ InitStream /\ InitClock /\ IdleWarm /\ InitMatcher /\ IdleCache /\ IdleService

NextStream ==
  \/ \E r \in RequestIds, p \in PreferredChoices : HandleLLMRequest(r, p) /\ StreamFrame
  \/ \E r \in RequestIds : ProviderChunk(r) /\ StreamFrame
  \/ \E r \in RequestIds : ProviderReturn(r) /\ StreamFrame
  \/ \E r \in RequestIds : ProviderThrow(r) /\ StreamFrame
  \/ \E t \in RequestIds \cup {NoProvider} : HandleCancel(t) /\ StreamFrame
  \/ \E t \in InterruptTargets : HandleInterrupt(t) /\ StreamFrame
  \/ Close /\ StreamFrame
  \/ \E r \in RequestIds : LateData(r) /\ StreamFrame

NextText ==
  \E p \in PreferredChoices, failing \in FailingChoices :
     ProcessPrompt(p, failing) /\ TextFrame

\* The streaming handler of one connection with the router behind it
SpecStream == Init /\ [][NextStream]_vars

\* Both dispatchers side by side: processPrompt, and processPromptWithStreaming with the
\* events that reach it (provider events, and the socket closing, which aborts its
\* signal).  Cancel and Interrupt are left to SpecStream: they write only
\* activeRequests, requestAborted, ctlSent and cancelMark, which no dispatcher reads.
\* So are the data events after the end of a call, which write only the event log.
NextDispatch ==
  \/ \E r \in RequestIds, p \in PreferredChoices : HandleLLMRequest(r, p) /\ StreamFrame
  \/ \E r \in RequestIds : ProviderChunk(r) /\ StreamFrame
  \/ \E r \in RequestIds : ProviderReturn(r) /\ StreamFrame
  \/ \E r \in RequestIds : ProviderThrow(r) /\ StreamFrame
  \/ Close /\ StreamFrame
  \/ NextText

SpecDispatch == Init /\ [][NextDispatch]_vars

\* The one router shared by the connections of the process: the dispatch of this
\* connection, its socket closing, and the streams of the other connections.
NextSessions ==
  \/ \E r \in RequestIds, p \in PreferredChoices : HandleLLMRequest(r, p) /\ StreamFrame
  \/ \E r \in RequestIds : ProviderChunk(r) /\ StreamFrame
  \/ \E r \in RequestIds : ProviderReturn(r) /\ StreamFrame
  \/ \E r \in RequestIds : ProviderThrow(r) /\ StreamFrame
  \/ Close /\ StreamFrame
  \/ \E id \in ForeignStreamIds : ForeignStreamStarts(id) /\ StreamFrame
  \/ \E id \in ForeignStreamIds : ForeignStreamEnds(id) /\ StreamFrame

SpecSessions == Init /\ [][NextSessions]_vars

MaxHistory == 21

\* the credential configurations of the history runs: none, and one provider
HistoryEnvironments == { {}, {"openai"} }

\* One connection handling one llm_request after the other, each succeeding or failing,
\* until the history holds MaxHistory messages
NextHistory ==
  \/ \E r \in RequestIds :
        /\ Len(conversationHistory) < MaxHistory
        /\ HandleLLMRequest(r, NoProvider)
        /\ StreamFrame
  \/ \E r \in RequestIds : ProviderReturn(r) /\ StreamFrame
  \/ \E r \in RequestIds : ProviderThrow(r) /\ StreamFrame
  \/ \E r \in RequestIds : RequestForgotten(r) /\ StreamFrame

InitHistory ==
  /\ env \in HistoryEnvironments
  /\ InitText /\ InitStream /\ InitClock /\ IdleWarm /\ InitMatcher /\ IdleCache /\ IdleService

SpecHistory == InitHistory /\ [][NextHistory]_vars

NextWarm ==
  \/ Start /\ WarmFrame
  \/ Stop /\ WarmFrame
  \/ \E i \in 1..Len(timers) : TimerFire(i) /\ WarmFrame
  \/ \E ok \in BOOLEAN : PingSettles(ok) /\ WarmFrame
  \/ \E c \in Callers : EnsureWarm(c) /\ WarmFrame
  \/ Tick /\ UNCHANGED warmVars /\ WarmFrame

\* The warmup service with its timer, its pings and the callers of ensureWarm()
InitWarmup ==
  IdleEnv /\ InitText /\ InitStream /\ InitClock /\ InitWarm /\ InitMatcher /\ IdleCache /\ IdleService

SpecWarmup == InitWarmup /\ [][NextWarm]_vars

NextMatcher ==
  \/ \E d \in Descriptions, es \in ElementLists, x \in ExcludedChoices,
        m \in MaxRetriesChoices : MatchElementWithRetry(d, es, x, m) /\ MatchFrame
  \/ \E response \in LLMResponses : LLMResponds(response) /\ MatchFrame

InitMatching ==
  IdleEnv /\ InitText /\ InitStream /\ InitClock /\ IdleWarm /\ InitMatcher /\ IdleCache /\ IdleService

SpecMatcher == InitMatching /\ [][NextMatcher]_vars

\* the dispatcher settles every call made to it: processPrompt returns or throws
MatcherFairness == WF_vars(\E response \in LLMResponses : LLMResponds(response) /\ MatchFrame)

SpecMatcherLive == InitMatching /\ [][NextMatcher]_vars /\ MatcherFairness

NextCache ==
  \/ \E u \in Urls, h \in Hashes, es \in DetectedLists, wb \in WindowBoundsChoices :
        SaveToCache(u, h, es, wb) /\ CacheFrame
  \/ SetexArrives /\ CacheFrame
  \/ \E g \in Getters, u \in Urls, h \in Hashes : GetFromCache(g, u, h) /\ CacheFrame
  \/ \E g \in Getters : GetEvict(g) /\ CacheFrame
  \/ \E u \in Urls, h \in Hashes : InvalidateEntry(u, h) /\ CacheFrame
  \/ \E u \in Urls : InvalidateKeys(u) /\ CacheFrame
  \/ InvalidateDel /\ CacheFrame
  \/ CacheTick /\ CacheClockFrame

InitCaching ==
  IdleEnv /\ InitText /\ InitStream /\ InitClock /\ IdleWarm /\ InitMatcher /\ InitCache /\ IdleService

SpecCache == InitCaching /\ [][NextCache]_vars

\* The cache written and invalidated, over more urls and hashes, each invalidateCache
\* call observed from the call to its return
NextInvalidate ==
  \/ \E u \in InvalidateUrls, h \in InvalidateHashes, es \in DetectedLists :
        SaveToCache(u, h, es, Undefined) /\ ObserveOther /\ ObservedFrame
  \/ SetexArrives /\ ObserveOther /\ ObservedFrame
  \/ \E u \in InvalidateUrls, h \in InvalidateHashes :
        InvalidateEntry(u, h) /\ ObserveCall(u, h, TRUE) /\ ObservedFrame
  \/ \E u \in InvalidateUrls :
        InvalidateKeys(u) /\ ObserveCall(u, "", ~purge'.active) /\ ObservedFrame
  \/ InvalidateDel /\ ObserveReturn /\ ObservedFrame

SpecInvalidate == InitCaching /\ [][NextInvalidate]_vars

\* detectElement asked for all elements, over a store that may be absent and whose
\* commands may fail
NextDetect ==
  \/ \E u \in DetectUrls, h \in Hashes, getFails \in BOOLEAN :
        DetectElement(u, h, FetchAll, Undefined, getFails) /\ DetectFrame
  \/ \E delFails \in BOOLEAN : DetectEvict(delFails) /\ DetectFrame
  \/ \E failing \in SUBSET DetectorNames : DetectCall(failing) /\ DetectFrame
  \/ \E es \in DetectedLists, saveFails \in BOOLEAN : DetectSave(es, saveFails) /\ DetectFrame
  \/ DetectReturn /\ DetectFrame
  \/ SetexArrives /\ CacheFrame
  \/ \E u \in DetectUrls : InvalidateFails /\ ObserveCall(u, "", TRUE) /\ ObservedFrame
  \/ CacheTick /\ CacheClockFrame

InitDetecting ==
  /\ IdleEnv /\ InitText /\ InitStream /\ InitClock /\ IdleWarm /\ InitMatcher /\ InitCache
  /\ InitDetector /\ IdleMerge /\ IdleVision

SpecDetect == InitDetecting /\ [][NextDetect]_vars

\* detectElement asked for all elements or for one, from windows at different offsets,
\* over a store whose commands succeed
NextResolve ==
  \/ \E u \in DetectUrls, h \in Hashes, d \in DetectDescriptions, wb \in WindowBoundsChoices :
        DetectElement(u, h, d, wb, FALSE) /\ DetectFrame
  \/ DetectEvict(FALSE) /\ DetectFrame
  \/ \E failing \in SUBSET DetectorNames : DetectCall(failing) /\ DetectFrame
  \/ \E es \in DetectorAnswers : DetectSave(es, FALSE) /\ DetectFrame
  \/ DetectReturn /\ DetectFrame
  \/ SetexArrives /\ CacheFrame
  \/ CacheTick /\ CacheClockFrame

SpecResolve == InitDetecting /\ [][NextResolve]_vars

\* the merge pass over every list of at most MaxElements elements of the pool
NextMerge == ParseOmniParserElements /\ MergeFrame

InitMerging ==
  /\ IdleEnv /\ InitText /\ InitStream /\ InitClock /\ IdleWarm /\ InitMatcher /\ IdleCache
  /\ IdleDetector /\ InitMerge /\ IdleVision

SpecMerge == InitMerging /\ [][NextMerge]_vars

\* /verify requests, two at a time, over every set of configured vision providers
NextVision ==
  \/ \E q \in Verifiers, body \in VerifyBodies : PostVerify(q, body) /\ VisionFrame
  \/ \E q \in Verifiers, ok \in BOOLEAN, answer \in VisionAnswers :
        VisionSettles(q, ok, answer) /\ VisionFrame

InitVerifying ==
  /\ IdleEnv /\ InitText /\ InitStream /\ InitClock /\ IdleWarm /\ InitMatcher /\ IdleCache
  /\ IdleDetector /\ IdleMerge /\ InitVision

SpecVision == InitVerifying /\ [][NextVision]_vars

(***************************************************************************)
(* Properties of the dispatchers and of the streaming handler              *)
(***************************************************************************)

IsPrefix(s, t) == Len(s) <= Len(t) /\ \A i \in 1..Len(s) : s[i] = t[i]

NoRepeat(s) == \A i, j \in 1..Len(s) : i # j => s[i] # s[j]

\* [preferred if given, then the priority list without the preferred one]
AttemptOrder(preferred, list) ==
  LET Other(p) == p # preferred
  IN  IF preferred = NoProvider THEN list ELSE <<preferred>> \o SelectSeq(list, Other)

\* C1: in both dispatchers the providers called so far are an initial part of
\* [preferred, priority list minus preferred], none is called twice, and the provider
\* that returned is the last one called (nothing is called after the first success).
C1_AttemptOrder ==
  /\ IsPrefix(textCall.attempts, AttemptOrder(textCall.preferred, providers))
  /\ NoRepeat(textCall.attempts)
  /\ textCall.status = "ok" =>
        textCall.attempts[Len(textCall.attempts)] = textCall.provider
  /\ textCall.status = "failed" =>
        textCall.attempts = AttemptOrder(textCall.preferred, providers)
  /\ \A r \in RequestIds :
        /\ IsPrefix(attempts[r], AttemptOrder(preferredProvider[r], fallbackChain))
        /\ NoRepeat(attempts[r])
        /\ streamResult[r].status = "ok" =>
              attempts[r][Len(attempts[r])] = streamResult[r].provider

\* A text dispatch and a streaming dispatch that both fell back from a preferred
\* provider to a later provider of the list, which returned.
C1_Witness ==
  /\ textCall.status = "ok" /\ textCall.preferred # NoProvider
  /\ Len(textCall.attempts) >= 3
  /\ \E r \in RequestIds :
        /\ streamResult[r].status = "ok" /\ preferredProvider[r] # NoProvider
        /\ Len(attempts[r]) >= 3

IsChunk(m) == m.type = "llm_stream_chunk"
IsTerminal(m) == m.type \in {"llm_stream_end", "llm_error", "error"}

\* Start, then chunks only
StartThenChunks(log) ==
  /\ Len(log) >= 1
  /\ log[1].type = "llm_stream_start"
  /\ \A i \in 2..Len(log) : IsChunk(log[i])

\* C2: on an open connection the messages of a request are one Start, then Chunks,
\* then (once the request has ended) exactly one terminal message, End or an error;
\* and the dispatcher does not throw in addition to its terminal Error event.
C2_OneStartOneTerminal ==
  \A r \in RequestIds :
    /\ (wsOpen /\ pc[r] = "calling") => StartThenChunks(sent[r])
    /\ (wsOpen /\ pc[r] = "done") =>
          /\ Len(sent[r]) >= 2
          /\ StartThenChunks(SubSeq(sent[r], 1, Len(sent[r]) - 1))
          /\ IsTerminal(sent[r][Len(sent[r])])
    /\ streamResult[r].status # "threw"

\* C3: once a Cancel or Interrupt of an in-flight request has been acknowledged, the
\* signal its provider call runs under is aborted, no further provider is called for
\* it and no further Chunk of it is sent.
C3_CancelStopsStream ==
  \A r \in RequestIds :
    cancelMark[r].set =>
      /\ r \in streamAborted
      /\ Len(attempts[r]) = cancelMark[r].attempts
      /\ ChunkCount(sent[r]) = cancelMark[r].chunks

\* C10: the result of a successful dispatch carries a fallbackChain with one entry per
\* provider call made, in call order.
C10_FallbackChainPerAttempt ==
  \A r \in RequestIds :
    streamResult[r].status = "ok" =>
      /\ streamResult[r].fallbackChainDefined
      /\ Len(streamResult[r].fallbackChain) = Len(attempts[r])
      /\ \A i \in 1..Len(attempts[r]) :
            streamResult[r].fallbackChain[i].provider = attempts[r][i]

(***************************************************************************)
(* Properties of the warmup coordinator                                    *)
(***************************************************************************)

\* C4: at most one warmup ping is outstanding at any time, it is the one marked in
\* flight, and every caller waiting in ensureWarm() waits for that single ping.
C4_OnePingOutstanding ==
  /\ pingsOutstanding <= 1
  /\ inFlightWarmup <=> pingsOutstanding = 1
  /\ (\E c \in Callers : ensure[c].state = "awaiting") => pingsOutstanding = 1

\* Two ensureWarm() calls made around one ping (one started it, the other came while
\* it was in flight) with a live periodic timer, and still a single ping outstanding.
C4_Witness ==
  /\ pingsOutstanding = 1
  /\ warmupInterval # 0
  /\ \E c, d \in Callers :
        /\ c # d
        /\ ensure[c].state = "awaiting"
        /\ ensure[d].state = "done" /\ ensure[d].joined = warmupCount

\* C5: an ensureWarm() call made while a warmup is outstanding does not complete
\* before that warmup has completed.
C5_EnsureWarmAwaitsOutstanding ==
  \A c \in Callers :
    (ensure[c].state = "done" /\ ensure[c].joined # 0) =>
       ~(inFlightWarmup /\ warmupCount = ensure[c].joined)

\* when the last ping that succeeded settled, 0 when none has
LastSuccessAt == settled.successAt

C18_FailedPingSwallowed ==
  /\ \A c \in Callers : ensure[c].state # "threw"
  /\ lastWarmupTime = LastSuccessAt
  /\ pingsOutstanding = 0 => ~inFlightWarmup

\* the first ping failed while a caller of ensureWarm() awaited it; the caller came back,
\* no success is on record, and a second ping is on its way
C18_Witness ==
  /\ settled.at # 0 /\ ~settled.ok
  /\ \E c \in Callers : ensure[c].state = "done" /\ ~ensure[c].wasWarm
  /\ lastWarmupTime = 0
  /\ warmupCount = 2 /\ pingsOutstanding = 1

\* C19: once stop() has returned, no periodic timer is pending, so no warmup is started
\* by a timer any more, whatever start() and stop() calls came before.
C19_StopLeavesNoTimer ==
  warmupInterval = 0 => \A i \in 1..Len(timers) : ~timers[i].live

(***************************************************************************)
(* Element matcher                                                         *)
(***************************************************************************)

\* C6: within one matchElementWithRetry call, the ids of the elements rejected by an
\* attempt are excluded from then on: they are in the call's exclusion set once the
\* attempt is over, and none of them is among the candidates of a later attempt.
C6_RetriesExcludeRejected ==
  \A i \in 1..Len(attemptLog) :
    /\ attemptLog[i].rejected \subseteq excludedIds
    /\ \A j \in (i + 1)..Len(attemptLog) :
         attemptLog[i].rejected \cap Range(attemptLog[j].candidates) = {}

\* C7: an attempt whose dispatcher answer is well-formed with confidence below 0.5
\* returns no element as its match.
C7_LowConfidenceRejected ==
  \A i \in 1..Len(attemptLog) :
    (attemptLog[i].wellFormed /\ attemptLog[i].confidence < 5)
      => attemptLog[i].returned = NoElement.id

(***************************************************************************)
(* Element cache                                                           *)
(***************************************************************************)

\* C8: a get that follows a put of the same key within the retention window, with no put
\* or invalidate of that key in between, returns an entry identical to the one stored.
C8_PutThenGetIdentical ==
  \A g \in Getters :
    (gets[g].state = "done" /\ gets[g].expected # NoData)
      => (gets[g].hit /\ SameEntry(gets[g].data, gets[g].expected))

\* the get of g found an entry of the given age or older, and has returned
FoundAged(g, age) == gets[g].state = "done" /\ gets[g].age >= age

\* the get of g returned absent and the entry it found is gone: what the key holds now,
\* if anything, was put later
AbsentAndRemoved(g) ==
  /\ ~gets[g].hit
  /\ store[gets[g].key].present =>
       /\ ~evicted[gets[g].key]
       /\ ReadMember(JsonParse(store[gets[g].key].value), "timestamp") > gets[g].stamp

\* a key that a get deleted stays absent until it is put again
EvictedStaysAbsent == \A k \in CacheKeys : evicted[k] => ~store[k].present

\* C9: a get that finds an entry whose age is not below the retention window (age >= 3
\* days) returns absent and removes the entry, so that later gets of the key, without a
\* new put, are absent too.
C9_NotYoungerIsEvicted ==
  /\ \A g \in Getters : FoundAged(g, CACHE_TTL_SECONDS) => AbsentAndRemoved(g)
  /\ EvictedStaysAbsent

\* C9, amended: a get that finds an entry whose age is greater than the retention window
\* returns absent and removes the entry, so that later gets of the key, without a new
\* put, are absent too.
C9_OlderIsEvicted ==
  /\ \A g \in Getters : FoundAged(g, CACHE_TTL_SECONDS + 1) => AbsentAndRemoved(g)
  /\ EvictedStaysAbsent

C9_Witness ==
  \E g \in Getters :
    /\ FoundAged(g, CACHE_TTL_SECONDS + 1)
    /\ ~gets[g].hit
    /\ evicted[gets[g].key]
    /\ ~store[gets[g].key].present

(***************************************************************************)
(* Credentials, error messages, chunk order, sessions                      *)
(***************************************************************************)

\* the providers of a sequence that have no credential in process.env
WithoutCredential(calls) == { p \in Range(calls) : p \notin env }

\* C11: a provider whose credential is absent fails locally: no network call goes to it,
\* it never is the provider that answers, and the dispatch goes on with the next
\* provider; when no provider has a credential the dispatch fails with the
\* all-providers-failed error and has made no network call.  Both dispatchers.
C11_NoCredentialNoNetworkCall ==
  /\ WithoutCredential(textCall.network) = {}
  /\ textCall.status = "ok" => textCall.provider \in env
  /\ textCall.status # "none" /\ env = {} =>
        /\ textCall.status = "failed"
        /\ textCall.message = TextAllFailedMessage
        /\ textCall.network = <<>>
  /\ \A r \in RequestIds :
        /\ WithoutCredential(networkCalls[r]) = {}
        /\ streamResult[r].status = "ok" => streamResult[r].provider \in env
        /\ pc[r] = "calling" => CurrentProvider(r) \in env
        /\ pc[r] # "idle" /\ env = {} =>
              /\ streamResult[r].status = "threw"
              /\ streamResult[r].message = AllFailedMessage
              /\ networkCalls[r] = <<>>

\* both dispatchers have gone through all their providers with no credential set, and
\* a dispatch has passed over providers without a key before calling one that has it
C11_Witness ==
  \/ /\ env = {}
     /\ textCall.status = "failed" /\ Len(textCall.attempts) = Len(providers)
     /\ \E r \in RequestIds :
          streamResult[r].status = "threw" /\ Len(attempts[r]) = Len(fallbackChain)
  \/ /\ env = {"gemini", "deepseek", "grok"}
     /\ \E r \in RequestIds :
          /\ streamResult[r].status = "ok" /\ streamResult[r].provider = "deepseek"
          /\ networkCalls[r] = <<"gemini", "deepseek">>
          /\ Len(attempts[r]) = 5

\* the messages of the terminal error events among the messages sent
ErrorMessagesSent(log) ==
  { log[i].message : i \in { j \in 1..Len(log) : log[j].type \in {"llm_error", "error"} } }

\* C12: when every provider of the attempt order has failed, the error the dispatch
\* raises, and in stream mode the terminal error event, carry the error message of the
\* last provider call that failed.
C12_AllFailedCarriesLastError ==
  /\ textCall.status = "failed" => textCall.message = textCall.lastError
  /\ \A r \in RequestIds :
        streamResult[r].status = "threw" =>
           /\ streamResult[r].message = lastError[r]
           /\ ErrorMessagesSent(sent[r]) \subseteq {lastError[r]}

IsEnd(m) == m.type = "llm_stream_end"

\* the texts of the Chunk events of a log, in the order they were sent
ChunkTexts(log) ==
  LET chunks == SelectSeq(log, IsChunk)
  IN  [i \in 1..Len(chunks) |-> chunks[i].text]

ChunkProviders(log) ==
  LET chunks == SelectSeq(log, IsChunk)
  IN  { chunks[i].provider : i \in 1..Len(chunks) }

\* C13: the Chunk events delivered for a stream are the fragments of the provider that
\* answered, in the order it produced them: put together, the texts of all delivered
\* Chunk events are the fullText of the End event, also when an earlier provider failed
\* after it had emitted fragments.
C13_ChunksMakeFullText ==
  \A r \in RequestIds :
    LET ends == SelectSeq(sent[r], IsEnd)
    IN  Len(ends) > 0 =>
          /\ ChunkTexts(sent[r]) = ends[1].fullText
          /\ ChunkProviders(sent[r]) \subseteq {ends[1].provider}

\* C14: cleaning up the handler of one connection (StreamingHandler.cleanup, run when
\* its socket closes) neither aborts nor unregisters a stream in flight that belongs to
\* another connection.
C14_CleanupLeavesOtherConnections ==
  \A id \in ForeignStreamIds :
    foreign[id].running => foreign[id].registered /\ ~foreign[id].aborted

\* C15: handling a Cancel whose target is unknown or has already completed is a no-op:
\* the request and stream maps and every request in flight stay as they are, and no
\* error message goes to the client.
C15_CancelUnknownIsNoOp ==
  [][\A target \in RequestIds \cup {NoProvider} :
       target \notin activeRequests /\ HandleCancel(target) => UNCHANGED streamVars]_vars

\* C16: once a streaming request has ended (End or Error sent, the dispatch call over),
\* its entry is in neither activeRequests nor activeStreams, whatever the outcome:
\* a provider answered, all providers failed, or the request was aborted.
C16_EndedRequestUnregistered ==
  \A r \in RequestIds :
    pc[r] = "done" => r \notin activeRequests /\ r \notin activeStreams

\* a request whose provider call was in flight, registered in both maps, has ended with
\* the all-providers-failed error and its End or Error event went out
C16_Witness ==
  \E r \in RequestIds :
    /\ pc[r] = "done"
    /\ streamResult[r].status = "threw"
    /\ Len(networkCalls[r]) > 0
    /\ \E i \in 1..Len(sent[r]) : IsTerminal(sent[r][i])
    /\ r \notin activeRequests /\ r \notin activeStreams

\* the keys of the entries stored under a url
UnderOrigin(url) == { GetCacheKey(url, h) : h \in InvalidateHashes }

\* C20: invalidate(origin, hash) removes the entry of that origin and hash and no other
\* entry; invalidate(origin) with no hash removes every entry stored under that origin.
\* Stated for the moment the call has returned, when the store holds what it left.
C20_InvalidateRemoves ==
  /\ invalidated.returned /\ invalidated.hash # "" =>
        Present(store) = invalidated.before \ {GetCacheKey(invalidated.url, invalidated.hash)}
  /\ invalidated.returned /\ invalidated.hash = "" =>
        invalidated.before \cap UnderOrigin(invalidated.url) \cap Present(store) = {}

\* C21: when no store is configured, or a command of the store fails, the get of
\* detectElement is a miss, nothing is written, and detectElement never fails with the
\* store's error: it throws only for want of a detector, and what it returns after such a
\* get is a fresh detection.
C21_StoreFailureIsAMiss ==
  /\ (gets[Detector].state = "done" /\ (~redis \/ detect.getFailed)) => ~gets[Detector].hit
  /\ gets[Detector].state # "threw"
  /\ ~redis => (Present(store) = {} /\ Len(setexQueue) = 0)
  /\ detect.outcome = "threw" =>
       detect.message \in {NotAvailableMessage, NoDetectorMessage, ReplicateErrorMessage,
                            ElementNotFoundMessage}
  /\ (detect.outcome = "returned" /\ (~redis \/ detect.getFailed)) =>
       (detect.method = "omniparser" /\ detect.source \in detectors
          /\ Len(detect.calls) > 0)

\* the read and the write of the store both failed and the fresh detection was returned
C21_Witness ==
  /\ redis
  /\ detect.getFailed
  /\ detect.saveFailed
  /\ detect.outcome = "returned"
  /\ detect.method = "omniparser"

\* the README's priority of a detector: 1 Hugging Face, 2 Modal, 3 Replicate
Priority(d) == IF d = "huggingface" THEN 1 ELSE IF d = "modal" THEN 2 ELSE 3

\* C28: a fresh detection calls configured detectors only, in the order Hugging Face,
\* Modal, Replicate; a detector is called only after every configured detector of higher
\* priority was called and failed; the detector whose elements are returned is the last
\* one called, and it is the only one that did not fail.
C28_DetectorsInPriorityOrder ==
  LET calls == detect.calls
  IN  /\ \A i \in 1..Len(calls) :
           /\ calls[i] \in detectors
           /\ \A j \in 1..Len(calls) : i < j => Priority(calls[i]) < Priority(calls[j])
           /\ \A d \in detectors :
                Priority(d) < Priority(calls[i]) =>
                  (d \in detect.failed /\ \E j \in 1..(i - 1) : calls[j] = d)
      /\ detect.source # "" =>
           /\ Len(calls) > 0
           /\ detect.source = calls[Len(calls)]
           /\ detect.failed = Range(calls) \ {detect.source}
      /\ (detect.outcome = "returned" /\ detect.method = "omniparser") => detect.source # ""

\* Hugging Face and Modal failed, and the elements of Replicate were returned
C28_Witness ==
  /\ detect.outcome = "returned"
  /\ detect.calls = <<"huggingface", "modal", "replicate">>
  /\ detect.source = "replicate"

\* the answer of a logged attempt parses, its index is between 1 and the number of
\* candidates and its confidence is between 0 and 1
InRange(e) ==
  /\ \/ e.kind = "json" /\ e.elementIndex >= 1 /\ e.elementIndex <= Len(e.candidates)
     \/ e.kind = "fraction" /\ 2 * e.elementIndex + 1 >= 2
                            /\ 2 * e.elementIndex + 1 <= 2 * Len(e.candidates)
  /\ e.confidence >= 0 /\ e.confidence <= 10

\* the id of the candidate a logged answer names: none when its index is no integer
Pick(e) == IF e.kind = "fraction" THEN NoElement.id ELSE e.candidates[e.elementIndex]

\* C22: parseLLMResponse takes the dispatcher's pick exactly when the answer parses with an
\* index within 1..number of candidates and a confidence within [0,1]; for any other
\* answer it gives the first candidate with confidence 0.5, and the attempt returns that
\* candidate instead of failing.
C22_MalformedAnswerPicksFirst ==
  \A i \in 1..Len(attemptLog) :
    LET e == attemptLog[i]
    IN  (e.invoked /\ e.kind # "throw") =>
          IF InRange(e)
            THEN /\ e.wellFormed
                 /\ e.parsed = [id |-> Pick(e), confidence |-> e.confidence]
            ELSE /\ ~e.wellFormed
                 /\ e.parsed = [id |-> e.candidates[1], confidence |-> 5]
                 /\ e.returned = e.candidates[1]
                 /\ e.resultConfidence = 5

\* an answer with a confidence above 1, one with an index beyond the candidates and one
\* that is no JSON have each ended a call with the first candidate
C22_Witness ==
  /\ matchPc = "done"
  /\ Len(attemptLog) > 0
  /\ LET e == attemptLog[Len(attemptLog)]
     IN  /\ e.invoked
         /\ e.kind = "json"
         /\ e.elementIndex = 1
         /\ e.confidence = 11
         /\ Len(e.candidates) = 2
         /\ matchResult.element.id = e.candidates[1]
         /\ matchResult.confidence = 5

\* the candidates every attempt of the call in progress computes: excludedIds does not
\* change during the call
CandidateSet == MatchElementBegin(matchCall.description, matchCall.elements, excludedIds).candidates

\* C23: when the candidate set is empty the dispatcher is not awaited, and the call ends,
\* after maxRetries attempts none of which invoked it, with no element.
C23_NoCandidatesNoDispatch ==
  /\ matchPc = "llm" => Len(CandidateSet) > 0
  /\ (matchPc = "done" /\ Len(CandidateSet) = 0) =>
       /\ matchResult.element = NoElement
       /\ matchResult.confidence = 0
       /\ Len(attemptLog) = matchCall.maxRetries
       /\ \A i \in 1..Len(attemptLog) :
            ~attemptLog[i].invoked /\ attemptLog[i].returned = NoElement.id

\* a call over elements that are all excluded ended after three attempts
C23_Witness ==
  /\ matchPc = "done"
  /\ Len(matchCall.elements) > 0
  /\ Len(CandidateSet) = 0
  /\ Len(attemptLog) = 3
  /\ matchResult.element = NoElement

\* the call is for "submit button" over a list in which exactly one element has content
\* "Submit", and that one is interactive
SubmitButtonCall ==
  /\ matchPc = "done"
  /\ matchCall.description = <<"submit", "button">>
  /\ Cardinality({ i \in 1..Len(matchCall.elements) :
                     matchCall.elements[i].content = <<"Submit">> }) = 1
  /\ \A i \in 1..Len(matchCall.elements) :
       matchCall.elements[i].content = <<"Submit">> => matchCall.elements[i].interactivity

TheSubmit ==
  CHOOSE e \in Range(matchCall.elements) : e.content = <<"Submit">>

ReturnsTheSubmit == matchResult.element = TheSubmit /\ matchResult.confidence >= 5

\* the statement of C24 as the spec has it, for a call that excludes nothing
C24_Original == (SubmitButtonCall /\ excludedIds = {}) => ReturnsTheSubmit

\* no other element of the list is a substring match of the description
NoOtherMatch ==
  \A i \in 1..Len(matchCall.elements) :
    LET e == matchCall.elements[i]
        descLower == ToLowerCase(matchCall.description)
    IN  \/ e = TheSubmit
        \/ ~IsClean(e)
        \/ /\ ~Includes(descLower, ToLowerCase(e.content))
           /\ ~Includes(ToLowerCase(e.content), descLower)

\* C24: for "submit button" and a list with exactly one element of content "Submit",
\* interactive and not excluded, in which no other element's content contains or is
\* contained in the description, the call returns that element with confidence at least
\* 0.5, whatever the dispatcher answers.
C24_OnlyCandidateIsReturned ==
  (SubmitButtonCall /\ TheSubmit.id \notin excludedIds /\ NoOtherMatch) => ReturnsTheSubmit

\* the dispatcher failed, and the call over Cancel, Welcome, Submit returned Submit
C24_Witness ==
  /\ SubmitButtonCall
  /\ NoOtherMatch
  /\ Len(matchCall.elements) = 3
  /\ Len(attemptLog) = 1
  /\ attemptLog[1].kind = "throw"
  /\ ReturnsTheSubmit

(***************************************************************************)
(* Icon and label merge                                                    *)
(***************************************************************************)

\* the ids of the list are unique within the pass
UniqueIds(elements) ==
  \A i, j \in 1..Len(elements) : i # j => elements[i].id # elements[j].id

Merged == merge.pc = "merged" /\ UniqueIds(merge.input)

\* the icon at position k of the input was given a label
Fused(k) == \E i \in 1..Len(merge.pairs) : merge.pairs[i].icon = k

\* the ids of the labels given to icons that come before position k
ConsumedBefore(k) ==
  { merge.input[merge.pairs[i].text].id :
      i \in { n \in 1..Len(merge.pairs) : merge.pairs[n].icon < k } }

\* the labels that may go to the icon at position k, in the words of the rule: not yet
\* consumed, no noise, two characters or more, centre within 8% of the icon's centre, top
\* edge between 2% above and 6% below the icon's bottom edge
Labels(k) ==
  { j \in 1..Len(merge.input) :
      LET t == merge.input[j]
          icon == merge.input[k]
      IN  /\ t.type = "text"
          /\ t.id \notin ConsumedBefore(k)
          /\ ~NoiseTest(Trim(t.content))
          /\ Length(Trim(t.content)) >= 2
          /\ Dx2(t, icon) <= 16
          /\ Dy(t, icon) >= -2
          /\ Dy(t, icon) <= 6 }

HasGenericContent(e) == e.type = "icon" /\ GenericTest(Trim(e.content))

\* C25: an icon of generic content is given a label exactly when some label is unconsumed,
\* no noise, at least 2 characters long, horizontally centred within 8% of the icon's
\* centre and with its top edge between 2% above and 6% below the icon's bottom edge; the
\* label given is one of those at the smallest horizontal distance, the icon then has the
\* label's text as content, and the label is not in the output.
C25_MergeExactlyTheNearLabel ==
  Merged =>
    \A k \in 1..Len(merge.input) :
      HasGenericContent(merge.input[k]) =>
        /\ Fused(k) <=> Labels(k) # {}
        /\ \A i \in 1..Len(merge.pairs) :
             merge.pairs[i].icon = k =>
               LET label == merge.input[merge.pairs[i].text]
                   icon == merge.input[k]
               IN  /\ merge.pairs[i].text \in Labels(k)
                   /\ \A j \in Labels(k) : Dx2(label, icon) <= Dx2(merge.input[j], icon)
                   /\ \E n \in 1..Len(merge.result) :
                        merge.result[n] = [icon EXCEPT !.content = Trim(label.content)]
                   /\ \A n \in 1..Len(merge.result) : merge.result[n].id # label.id

\* the icon at (0.40,0.10,0.46,0.16) took "Budget.xlsx" at (0.39,0.17,0.47,0.19), not the
\* label "Notes" that comes first in the list but lies 4% to the side
C25_Witness ==
  /\ merge.pc = "merged"
  /\ merge.input = <<txNotes, icGeneric, txBudget>>
  /\ merge.result = <<txNotes, [icGeneric EXCEPT !.content = "Budget.xlsx"]>>

\* C26: an icon whose content is not in the generic set has the same content in the
\* output as in the input.
C26_SpecificIconKeepsContent ==
  Merged =>
    \A k \in 1..Len(merge.input) :
      (merge.input[k].type = "icon" /\ ~GenericTest(Trim(merge.input[k].content))) =>
        \E n \in 1..Len(merge.result) : merge.result[n] = merge.input[k]

\* the element without its content, the one member the merge may write
Uncontented(e) == [e EXCEPT !.content = ""]

IsNotConsumed(e) == e.id \notin merge.consumedTextIds

\* C27: with unique ids, no label is given to two icons, every consumed element is a text
\* label, and the output is the input in its order without exactly the consumed labels;
\* the text elements that stay are unchanged.
C27_LabelConsumedOnce ==
  Merged =>
    /\ \A i, j \in 1..Len(merge.pairs) :
         i # j => merge.pairs[i].text # merge.pairs[j].text
    /\ \A i, j \in 1..Len(merge.pairs) :
         i < j => merge.pairs[i].icon < merge.pairs[j].icon
    /\ \A i \in 1..Len(merge.pairs) : merge.input[merge.pairs[i].text].type = "text"
    /\ merge.consumedTextIds =
         { merge.input[merge.pairs[i].text].id : i \in 1..Len(merge.pairs) }
    /\ LET kept == SelectSeq(merge.input, IsNotConsumed)
       IN  /\ Len(merge.result) = Len(kept)
           /\ \A n \in 1..Len(kept) :
                /\ Uncontented(merge.result[n]) = Uncontented(kept[n])
                /\ kept[n].type = "text" => merge.result[n] = kept[n]

\* two generic icons next to each other and one label near both: the first icon took it
\* and the second was left as it was
C27_Witness ==
  /\ Merged
  /\ Len(merge.input) = 3
  /\ merge.input[1] = icGeneric
  /\ merge.input[2] = icFolder
  /\ merge.input[3] = txBudget
  /\ Len(merge.pairs) = 1
  /\ merge.result = <<[icGeneric EXCEPT !.content = "Budget.xlsx"], icFolder>>

(***************************************************************************)
(* Vision routes                                                           *)
(***************************************************************************)

\* the request had screenshot and prompt, and every vision provider was tried and failed
AllVisionFailed(q) ==
  /\ verify[q].pc = "done"
  /\ verify[q].body.screenshot /\ verify[q].body.prompt
  /\ verify[q].failed = visionProviders

\* C29: a /verify request with screenshot and prompt for which every vision provider
\* failed is answered with status 200, success true and the degraded flag, with no
\* verdict and no provider.
C29_AllFailedIsDegradedSuccess ==
  \A q \in Verifiers :
    AllVisionFailed(q) =>
      /\ verify[q].response.status = 200
      /\ verify[q].response.success
      /\ verify[q].response.degraded
      /\ verify[q].response.verified = "null"
      /\ verify[q].response.provider = ""

\* the three providers had their keys, each was called and each call failed
C29_Witness ==
  /\ AllVisionFailed("v1")
  /\ visionKeys = Range(visionProviders)
  /\ verify["v1"].i = 4
  /\ verify["v1"].response.degraded

\* C30: an Interrupt whose targetId is given and is no active request leaves the other
\* requests alone: activeRequests is as before and no controller is aborted.
C30_InterruptUnknownLeavesOthers ==
  [][\A target \in InterruptTargets :
       (target # NoProvider /\ target \notin activeRequests /\ HandleInterrupt(target))
         => (activeRequests' = activeRequests /\ requestAborted' = requestAborted)]_vars

(***************************************************************************)
(* Element matcher: termination and results                                *)
(***************************************************************************)

\* the attempts of the call so far that asked the dispatcher
Invocations == { i \in 1..Len(attemptLog) : attemptLog[i].invoked }

AttemptsBounded ==
  /\ matchPc # "idle" => matchCall.maxRetries \in 1..3
  /\ Len(attemptLog) <= matchCall.maxRetries
  /\ Cardinality(Invocations) <= matchCall.maxRetries
  /\ matchPc = "llm" => attempt <= matchCall.maxRetries
  /\ (matchPc = "done" /\ \A i \in 1..Len(attemptLog) : attemptLog[i].returned = NoElement.id)
       => /\ matchResult.element = NoElement
          /\ matchResult.attemptNumber = matchCall.maxRetries
          /\ Len(attemptLog) = matchCall.maxRetries

\* C31: a call of matchElementWithRetry makes at most maxRetries attempts (3 when the
\* option is not given), so at most maxRetries dispatcher invocations; when every attempt
\* yields no element it returns no element; and a call that waits for the dispatcher ends
\* once the dispatcher has settled.
C31_RetryTerminates ==
  /\ []AttemptsBounded
  /\ (matchPc = "llm") ~> (matchPc = "done")

\* a call over an empty list, maxRetries not given, ended after three attempts
C31_Witness ==
  /\ matchPc = "done"
  /\ matchCall.elements = <<>>
  /\ matchCall.maxRetries = 3
  /\ Len(attemptLog) = 3
  /\ matchResult.attemptNumber = 3
  /\ matchResult.element = NoElement

(***************************************************************************)
(* Icon and label merge: which icon gets a label                           *)
(***************************************************************************)

\* the label at position j is, by place and text, a candidate of the icon at position k
EligibleFor(j, k) ==
  LET t == merge.input[j]
      icon == merge.input[k]
  IN  /\ t.type = "text"
      /\ ~NoiseTest(Trim(t.content))
      /\ Length(Trim(t.content)) >= 2
      /\ Dx2(t, icon) <= 16
      /\ Dy(t, icon) >= -2
      /\ Dy(t, icon) <= 6

\* C32: a label that is an eligible candidate of several generic icons is merged into the
\* one of them closest to it, whatever the order of the icons in the list.
C32_ClosestIconWins ==
  Merged =>
    \A i \in 1..Len(merge.pairs) :
      \A k \in 1..Len(merge.input) :
        (HasGenericContent(merge.input[k]) /\ EligibleFor(merge.pairs[i].text, k)) =>
          Dx2(merge.input[merge.pairs[i].text], merge.input[merge.pairs[i].icon])
            <= Dx2(merge.input[merge.pairs[i].text], merge.input[k])

(***************************************************************************)
(* Conversation history                                                    *)
(***************************************************************************)

\* C33: whenever no request is being handled, the conversation history of the connection
\* holds at most 20 messages.
C33_HistoryAtMostTwenty ==
  (\A r \in RequestIds : pc[r] \in {"idle", "done"}) => Len(conversationHistory) <= 20

(***************************************************************************)
(* Warmup: warm for good                                                   *)
(***************************************************************************)

Terminal(msg) == msg.type \in {"llm_stream_end", "llm_error"}

\* C35: once the terminal event (End or Error) of a stream has been sent, no Chunk event
\* of that stream is sent any more.
C35_NoChunkAfterTerminal ==
  \A r \in RequestIds :
    \A i \in 1..Len(sent[r]) :
      Terminal(sent[r][i]) =>
        \A j \in (i + 1)..Len(sent[r]) : sent[r][j].type # "llm_stream_chunk"

(***************************************************************************)
(* Streaming: all providers failed                                         *)
(***************************************************************************)

\* C40: a streaming dispatch that ended with the all-providers-failed error has attempted
\* every provider of its attempt order, [preferred, fallback chain minus preferred].
C40_AllFailedAfterAllTried ==
  \A r \in RequestIds :
    (streamResult[r].status = "threw" /\ streamResult[r].message = AllFailedMessage) =>
      attempts[r] = AttemptOrder(preferredProvider[r], fallbackChain)

(***************************************************************************)
(* Cache: what invalidate leaves alone                                     *)
(***************************************************************************)

\* C37: invalidate(origin) with no hash leaves the entries of every other origin as they
\* are: the keys it has the store delete are all keys of that origin.
C37_InvalidateLeavesOtherOrigins ==
  (purge.active /\ invalidated.hash = "") => purge.keys \subseteq UnderOrigin(invalidated.url)

(***************************************************************************)
(* Element matcher: what is returned                                       *)
(***************************************************************************)

\* the ids of the elements of the call
InputIds == { matchCall.elements[i].id : i \in 1..Len(matchCall.elements) }

\* C38: an element returned by an attempt or by the call is an element of the input list
\* whose id is not excluded, with a confidence from 0.5 to 1; and an attempt whose
\* candidate set is not empty returns an element.
C38_ReturnedElementIsACandidate ==
  /\ \A i \in 1..Len(attemptLog) :
       LET e == attemptLog[i]
       IN  /\ e.returned # NoElement.id =>
                /\ e.returned \in InputIds \ e.excluded
                /\ e.resultConfidence >= 5 /\ e.resultConfidence <= 10
           /\ Len(e.candidates) > 0 => e.returned # NoElement.id
  /\ (matchPc = "done" /\ matchResult.element # NoElement) =>
       /\ matchResult.element \in Range(matchCall.elements)
       /\ matchResult.element.id \notin excludedIds
       /\ matchResult.confidence >= 5 /\ matchResult.confidence <= 10

(***************************************************************************)
(* detectElement: the cache in front of the detectors                      *)
(***************************************************************************)

ResolvedFromCache ==
  /\ detect.outcome = "returned"
  /\ detect.method = "omniparser_cached"
  /\ detect.description # FetchAll

\* C36: the coordinates returned from the cache are those a fresh detection returns for
\* the same element: the centre of its box moved by the window offset of this request.
C36_CachedAsFresh ==
  ResolvedFromCache =>
    detect.coordinates =
      Center(AbsoluteBbox(detect.selected.normalizedBbox, detect.windowBounds))

\* the entry held what was asked for: all elements, or the element described
CacheSufficed ==
  detect.hit /\ (detect.description = FetchAll \/ detect.cacheMatch.element # NoElement)

\* the cached entry was searched for the element and did not hold it
CacheFellShort == detect.cacheMatch.tried /\ detect.cacheMatch.element = NoElement

====
